---- MODULE Spec2Model ----
(***************************************************************************)
(* Model of the publish pipeline of the auto-publishing site:              *)
(*   scripts/select_topic.py  (select_topic, mark_topic_used)              *)
(*   scripts/publish.py       (select_tool, resolve_cta_url,               *)
(*                             generate_unique_slug, should_skip_for_budget,*)
(*                             _generate_one_post, cli)                    *)
(*   scripts/quality_gate.py  (run_quality_gate)                           *)
(*   scripts/generate_article.py (generate_article)                        *)
(* Rows are records of strings, as csv.DictReader delivers them.  String   *)
(* operations of Python (strip, lower, <, int(), date.fromisoformat) are   *)
(* tables over the finite universe of strings the model draws from.        *)
(***************************************************************************)
EXTENDS Integers, Sequences, FiniteSets, TLC

VARIABLES
    \* ---- select_topic / mark_topic_used called on their own
    tp_rows,        \* the list object passed as `rows`
    tp_before,      \* its content when the call was made
    tp_op,          \* "idle" | "selected" | "marked"
    tp_target,      \* result of select_topic (a row or None)
    tp_keyword,     \* selected_keyword argument of mark_topic_used
    tp_used_at,     \* used_at argument of mark_topic_used (a day)
    tp_updated,     \* result of mark_topic_used
    \* ---- select_tool called on its own
    tl_rows,        \* the tool rows passed as `rows`
    tl_op,          \* "idle" | "selected" | "selected_excluding"
    tl_excluded,    \* the excluded_tool_ids the caller asked for
    tl_result,      \* the row returned, or the exception raised
    \* ---- should_skip_for_budget called on its own
    bg_today,       \* today: [year, month, day]
    bg_costs,       \* costs_rows
    bg_max,         \* max_monthly_usd
    bg_op,          \* "idle" | "decided"
    bg_skip,        \* the value returned
    \* ---- one run of publish.cli
    args,           \* [dry_run, mock]
    config,         \* [min_chars, posts_per_run, max_monthly_usd]
    hf_token,       \* HUGGINGFACE_API_TOKEN of the environment
    now,            \* today_jst(): [day, to_midnight], minutes left in the day
    costs_csv,      \* rows of the cost store
    keywords_csv,   \* rows of the topic store (on disk)
    tools_csv,      \* rows of the tool store (on disk)
    posts_dir,      \* stems of the *.md files of the output directory
    at_start,       \* [keywords, tools, posts]: the disk when the run began
    store_writes,   \* [keywords, tools]: write_csv_rows calls of this run
    current_keywords,
    current_tools,
    generated,      \* results of the iterations that returned one
    index,          \* loop variable of cli
    pc,             \* "start" | "loop" | "report" | "write_keywords" |
                    \* "write_tools" | "done" | "hung"
    outcome,        \* "" | "skipped:<reason>" | "published" | "error:<what>"
    picks,          \* history: [keyword, tool_id] of every iteration that
                    \* got as far as selecting a tool
    written,        \* history: [path, issues] of every output_file.write_text:
                    \* the file and what the gate's checks find in its text
    \* ---- generate_article, run_quality_gate, generate_unique_slug called
    \*      on their own
    fn_op,          \* "idle" | name of the function that was called
    fn_args,        \* its arguments, a record
    fn_result       \* what it returned

topicVars == <<tp_rows, tp_before, tp_op, tp_target, tp_keyword, tp_used_at, tp_updated>>

toolVars == <<tl_rows, tl_op, tl_excluded, tl_result>>

budgetVars == <<bg_today, bg_costs, bg_max, bg_op, bg_skip>>

runVars == <<args, config, hf_token, now, costs_csv, keywords_csv, tools_csv,
             posts_dir, at_start, store_writes, current_keywords, current_tools,
             generated, index, pc, outcome, picks, written>>

fnVars == <<fn_op, fn_args, fn_result>>

vars == <<topicVars, toolVars, budgetVars, runVars, fnVars>>

\* ------------------------------------------------------------------------
\* Bounds
\* ------------------------------------------------------------------------
MaxTopicRows == 2
MaxToolRows == 2
MaxCostRows == 2
MaxRunTopics == 2
MaxRunTools == 2
MaxPostsPerRun == 2
MaxGateParagraphs == 3

\* ------------------------------------------------------------------------
\* Python values
\* ------------------------------------------------------------------------
None == [none |-> TRUE]
ValueError == [raised |-> "ValueError"]
TypeError  == [raised |-> "TypeError"]
Raised(v)  == v \in {ValueError, TypeError}

\* str.strip() on the strings of the model
Strip(s) ==
    CASE s = " archived " -> "archived"
      [] s = " approved"  -> "approved"
      [] s = " https://a8.net/real" -> "https://a8.net/real"
      [] s = "   "        -> ""
      [] OTHER            -> s

\* str.lower() on the strings of the model
Lower(s) ==
    CASE s = "Paused"   -> "paused"
      [] s = "New"      -> "new"
      [] s = "Approved" -> "approved"
      [] s = "HTTPS://EXAMPLE.COM/A8/X" -> "https://example.com/a8/x"
      [] OTHER          -> s

\* Rank of a string in Python's str ordering (code point order), for the
\* strings that occur as sort keys.
StrRank(s) ==
    CASE s = ""           -> 0
      [] s = " archived " -> 1
      [] s = "0000-00-00" -> 2
      [] s = "1970-01-01" -> 3
      [] s = "2026-02-10" -> 4
      [] s = "2026-02-13" -> 5
      [] s = "2026-02-14" -> 6
      [] s = "2026-02-15" -> 7
      [] s = "New"        -> 8
      [] s = "Paused"     -> 9
      [] s = "archived"   -> 10
      [] s = "n/a"        -> 11
      [] s = "new"        -> 12
      [] s = "paused"     -> 13
      [] s = "ready"      -> 14
      [] s = "used"       -> 15

\* dt.date values are day numbers; date.isoformat()
IsoFormat(d) ==
    CASE d = 0 -> "1970-01-01"
      [] d = 1 -> "2026-02-10"
      [] d = 2 -> "2026-02-13"
      [] d = 3 -> "2026-02-14"
      [] d = 4 -> "2026-02-15"

\* ------------------------------------------------------------------------
\* scripts/common.py
\* ------------------------------------------------------------------------
\* parse_priority: int(value), 0 when int() raises
parse_priority(value) ==
    CASE value = "10" -> 10
      [] value = "1"  -> 1
      [] OTHER        -> 0

\* ------------------------------------------------------------------------
\* scripts/select_topic.py
\* ------------------------------------------------------------------------
\* _sort_key without the date of last use
sort_key_without_last_used(row) ==
    <<0 - parse_priority(row.priority), "0000-00-00", row.status>>

\* _sort_key: (-priority, last_used or "0000-00-00", status)
sort_key(row) ==
    <<0 - parse_priority(row.priority),
      IF row.last_used_at = "" THEN "0000-00-00" ELSE row.last_used_at,
      row.status>>

\* tuple comparison a < b of two _sort_key values
SortKeyLess(a, b) ==
    \/ a[1] < b[1]
    \/ a[1] = b[1] /\ StrRank(a[2]) < StrRank(b[2])
    \/ a[1] = b[1] /\ a[2] = b[2] /\ StrRank(a[3]) < StrRank(b[3])

TopicLess(r1, r2) == SortKeyLess(sort_key(r1), sort_key(r2))

\* sorted(rows, key=_sort_key): insertion of each row, in list order, behind
\* the rows whose key is not greater (stable, ascending)
RECURSIVE InsertTopic(_, _)
InsertTopic(row, s) ==
    IF s = <<>> THEN <<row>>
    ELSE IF TopicLess(row, Head(s)) THEN <<row>> \o s
    ELSE <<Head(s)>> \o InsertTopic(row, Tail(s))

RECURSIVE SortedTopicsFrom(_, _)
SortedTopicsFrom(rows, n) ==
    IF n = 0 THEN <<>>
    ELSE InsertTopic(rows[n], SortedTopicsFrom(rows, n - 1))

SortedTopics(rows) == SortedTopicsFrom(rows, Len(rows))

\* select_topic without the status filter
select_topic_unfiltered(rows) ==
    LET unused == SelectSeq(rows, LAMBDA row : row.last_used_at = "")
    IN  IF rows = <<>> THEN None
        ELSE SortedTopics(IF unused # <<>> THEN unused ELSE rows)[1]

\* select_topic without the never-used-first restriction
select_topic_no_unused_first(rows) ==
    LET available == SelectSeq(rows,
                        LAMBDA row : Lower(Strip(row.status)) \notin {"paused", "archived"})
    IN  IF available = <<>> THEN None
        ELSE SortedTopics(available)[1]

select_topic(rows) ==
    LET available == SelectSeq(rows,
                        LAMBDA row : Lower(Strip(row.status)) \notin {"paused", "archived"})
        unused    == SelectSeq(available, LAMBDA row : row.last_used_at = "")
    IN  IF available = <<>> THEN None
        ELSE SortedTopics(IF unused # <<>> THEN unused ELSE available)[1]

\* mark_topic_used that stamps every row
mark_topic_used_all_rows(rows, selected_keyword, used_at) ==
    [i \in 1..Len(rows) |->
        [rows[i] EXCEPT !.last_used_at = IsoFormat(used_at)]]

\* mark_topic_used that advances the status and leaves the date alone
mark_topic_used_status_only(rows, selected_keyword, used_at) ==
    [i \in 1..Len(rows) |->
        IF rows[i].keyword = selected_keyword
        THEN [rows[i] EXCEPT
                !.status = IF Lower(rows[i].status) \in {"new", "ready", ""}
                           THEN "used" ELSE @]
        ELSE rows[i]]

\* mark_topic_used that advances whatever the old status
mark_topic_used_any_status(rows, selected_keyword, used_at) ==
    [i \in 1..Len(rows) |->
        IF rows[i].keyword = selected_keyword
        THEN [rows[i] EXCEPT !.last_used_at = IsoFormat(used_at),
                             !.status = "used"]
        ELSE rows[i]]

mark_topic_used(rows, selected_keyword, used_at) ==
    [i \in 1..Len(rows) |->
        IF rows[i].keyword = selected_keyword
        THEN [rows[i] EXCEPT
                !.last_used_at = IsoFormat(used_at),
                !.status = IF Lower(rows[i].status) \in {"new", "ready", ""}
                           THEN "used" ELSE @]
        ELSE rows[i]]

\* the variables of a specification that is not running
TopicOff ==
    /\ tp_rows = <<>> /\ tp_before = <<>> /\ tp_op = "off" /\ tp_target = None
    /\ tp_keyword = "" /\ tp_used_at = 0 /\ tp_updated = <<>>

ToolOff ==
    /\ tl_rows = <<>> /\ tl_op = "off" /\ tl_excluded = {} /\ tl_result = None

BudgetOff ==
    /\ bg_today = None /\ bg_costs = <<>> /\ bg_max = 0 /\ bg_op = "off"
    /\ bg_skip = FALSE

RunOff ==
    /\ args = None /\ config = None /\ hf_token = "" /\ now = None
    /\ costs_csv = <<>> /\ keywords_csv = <<>> /\ tools_csv = <<>>
    /\ posts_dir = {} /\ at_start = None /\ store_writes = None
    /\ current_keywords = <<>> /\ current_tools = <<>> /\ generated = <<>>
    /\ index = 0 /\ pc = "off" /\ outcome = "" /\ picks = <<>>
    /\ written = <<>>

FnOff == fn_op = "off" /\ fn_args = None /\ fn_result = None

\* ------------------------------------------------------------------------
\* Inputs of the topic selector
\* ------------------------------------------------------------------------
Keywords      == {"ai", "seo"}
Intents       == {"compare"}
Priorities    == {"10", "abc"}

TopicRows ==
    [keyword : Keywords, intent : Intents, priority : Priorities,
     status : {"new", "New", "used", "paused", "Paused", " archived "},
     last_used_at : {"", "2026-02-10"}]

SeqsUpTo(S, n) == UNION {[1..k -> S] : k \in 0..n}

\* rows that were all used, on one of two days, with the statuses
\* mark_topic_used looks at


\* ------------------------------------------------------------------------
\* Specification SpecTopic: the two functions applied to every pool
\* ------------------------------------------------------------------------
InitTopic ==
    /\ tp_rows \in
          SeqsUpTo(TopicRows, MaxTopicRows)
          \cup SeqsUpTo([keyword : Keywords, intent : Intents, priority : Priorities,
                         status : {"ready", "", "New", "used", "paused"},
                         last_used_at : {"2026-02-10", "2026-02-13"}],
                        MaxTopicRows)
    /\ tp_before = tp_rows
    /\ tp_op = "idle"
    /\ tp_target = None
    /\ tp_keyword = ""
    /\ tp_used_at = 0
    /\ tp_updated = <<>>
    /\ ToolOff /\ BudgetOff /\ RunOff /\ FnOff

SelectTopicCall ==
    /\ tp_op = "idle"
    /\ tp_op' = "selected"
    /\ tp_target' = select_topic(tp_rows)
    /\ UNCHANGED <<tp_rows, tp_before, tp_keyword, tp_used_at, tp_updated>>
    /\ UNCHANGED <<toolVars, budgetVars, runVars, fnVars>>

\* the call only reads `rows`: it builds new dicts and a new list
MarkTopicUsedCall ==
    /\ tp_op = "idle"
    /\ \E kw \in Keywords, d \in {2, 3} :
        /\ tp_keyword' = kw
        /\ tp_used_at' = d
        /\ tp_updated' = mark_topic_used(tp_rows, kw, d)
    /\ tp_op' = "marked"
    /\ UNCHANGED <<tp_rows, tp_before, tp_target>>
    /\ UNCHANGED <<toolVars, budgetVars, runVars, fnVars>>

NextTopic == SelectTopicCall \/ MarkTopicUsedCall

SpecTopic == InitTopic /\ [][NextTopic]_vars

\* ------------------------------------------------------------------------
\* Claims on the topic selector (checked under SpecTopic)
\* ------------------------------------------------------------------------
IneligibleNoCase(row) == Lower(row.status) \in {"paused", "archived"}
Ineligible(row)       == Lower(Strip(row.status)) \in {"paused", "archived"}

\* C5 (as stated): select_topic never returns a row whose status, compared
\* case-insensitively, is paused or archived, and it returns none exactly when
\* every row of the pool has such a status (or the pool is empty).
C5_AsStated ==
    tp_op = "selected" =>
        /\ tp_target # None => ~IneligibleNoCase(tp_target)
        /\ tp_target = None <=>
              \A i \in 1..Len(tp_rows) : IneligibleNoCase(tp_rows[i])

\* C5 (amended): select_topic never returns a row whose status, with
\* surrounding whitespace removed and compared case-insensitively, is paused
\* or archived; it returns none exactly when every row of the pool has such
\* a status (or the pool is empty), and otherwise a row of the pool.
C5_NeverPausedOrArchived ==
    tp_op = "selected" =>
        /\ tp_target # None =>
              /\ ~Ineligible(tp_target)
              /\ ~IneligibleNoCase(tp_target)
              /\ \E i \in 1..Len(tp_rows) : tp_rows[i] = tp_target
        /\ tp_target = None <=>
              \A i \in 1..Len(tp_rows) : Ineligible(tp_rows[i])

\* a pool that mixes a paused row with an eligible one: the eligible is returned
C5_Witness ==
    /\ tp_op = "selected"
    /\ tp_target # None
    /\ \E i \in 1..Len(tp_rows) :
          /\ Ineligible(tp_rows[i])
          /\ TopicLess(tp_rows[i], tp_target)

\* C6: when the pool holds an eligible row with empty last_used_at,
\* select_topic returns a row with empty last_used_at, even when an eligible
\* row that was already used has a higher priority.
C6_UnusedFirst ==
    (/\ tp_op = "selected"
     /\ \E i \in 1..Len(tp_rows) :
           ~Ineligible(tp_rows[i]) /\ tp_rows[i].last_used_at = "")
    => (tp_target # None /\ tp_target.last_used_at = "")

\* an unused row was returned although a used eligible row has a higher priority
C6_Witness ==
    /\ tp_op = "selected"
    /\ tp_target # None
    /\ tp_target.last_used_at = ""
    /\ \E i \in 1..Len(tp_rows) :
          /\ ~Ineligible(tp_rows[i])
          /\ tp_rows[i].last_used_at # ""
          /\ parse_priority(tp_rows[i].priority) > parse_priority(tp_target.priority)

\* C7: mark_topic_used is a pure transform: the output has the length and
\* order of the input, every row whose keyword differs from the given one is
\* equal to the input row at its position, the input list is not modified,
\* and without a matching row the output equals the input.
C7_MarkIsPureTransform ==
    tp_op = "marked" =>
        /\ tp_rows = tp_before
        /\ Len(tp_updated) = Len(tp_before)
        /\ \A i \in 1..Len(tp_before) :
              /\ tp_updated[i].keyword = tp_before[i].keyword
              /\ tp_before[i].keyword # tp_keyword => tp_updated[i] = tp_before[i]
        /\ (\A i \in 1..Len(tp_before) : tp_before[i].keyword # tp_keyword)
              => tp_updated = tp_before

\* a pool with a matching row that changed and another row that did not match
C7_Witness ==
    /\ tp_op = "marked"
    /\ \E i, j \in 1..Len(tp_before) :
          /\ tp_before[i].keyword = tp_keyword
          /\ tp_updated[i] # tp_before[i]
          /\ tp_before[j].keyword # tp_keyword

\* ------------------------------------------------------------------------
\* scripts/publish.py: tool selection
\* ------------------------------------------------------------------------
AFFILIATE_READY_STATUSES == {"approved", "active", "affiliate_ready"}

\* `token in value` for the placeholder tokens and the URLs of the model
PlaceholderTokensIn(value) ==
    CASE value = "https://example.com/a8/x" -> {"example.com"}
      [] value = "https://a8.net/replace-me" -> {"replace-me"}
      [] value = "<your-affiliate-link>" -> {"your-affiliate-link", "<", ">"}
      [] OTHER -> {}

is_placeholder_url(url) ==
    LET value == Lower(Strip(url))
    IN  IF value = "" THEN TRUE
        ELSE PlaceholderTokensIn(value) # {}

\* the strings dt.date.fromisoformat accepts, and the day number it returns
IsIsoDate(value) ==
    value \in {"1970-01-01", "2026-02-10", "2026-02-13", "2026-02-14", "2026-02-15"}

FromIsoFormat(value) ==
    CASE value = "1970-01-01" -> 0
      [] value = "2026-02-10" -> 1
      [] value = "2026-02-13" -> 2
      [] value = "2026-02-14" -> 3
      [] value = "2026-02-15" -> 4

\* _parse_date: 1970-01-01 when fromisoformat raises
parse_date(value) ==
    IF IsIsoDate(value) THEN FromIsoFormat(value) ELSE 0

ToolLess(r1, r2) == parse_date(r1.last_posted_at) < parse_date(r2.last_posted_at)

\* sorted(candidate_rows, key=...): stable insertion, ascending
RECURSIVE InsertTool(_, _)
InsertTool(row, s) ==
    IF s = <<>> THEN <<row>>
    ELSE IF ToolLess(row, Head(s)) THEN <<row>> \o s
    ELSE <<Head(s)>> \o InsertTool(row, Tail(s))

RECURSIVE SortedToolsFrom(_, _)
SortedToolsFrom(rows, n) ==
    IF n = 0 THEN <<>>
    ELSE InsertTool(rows[n], SortedToolsFrom(rows, n - 1))

SortedTools(rows) == SortedToolsFrom(rows, Len(rows))

\* select_tool that sorts all rows, monetizable or not
select_tool_ignores_monetizable(rows) ==
    IF rows = <<>> THEN ValueError
    ELSE SortedTools(rows)[1]

\* select_tool that fails when no row is monetizable
select_tool_monetizable_only(rows) ==
    LET monetizable_rows ==
            SelectSeq(rows, LAMBDA row :
                /\ Lower(Strip(row.status)) \in AFFILIATE_READY_STATUSES
                /\ ~is_placeholder_url(row.affiliate_url))
    IN  IF monetizable_rows = <<>> THEN ValueError
        ELSE SortedTools(monetizable_rows)[1]

select_tool(rows) ==
    IF rows = <<>> THEN ValueError
    ELSE
        LET monetizable_rows ==
                SelectSeq(rows, LAMBDA row :
                    /\ Lower(Strip(row.status)) \in AFFILIATE_READY_STATUSES
                    /\ ~is_placeholder_url(row.affiliate_url))
            candidate_rows ==
                IF monetizable_rows # <<>> THEN monetizable_rows ELSE rows
        IN  SortedTools(candidate_rows)[1]

\* select_tool(rows, excluded_tool_ids=...): the function is declared with the
\* single parameter `rows`, so the call raises before the body runs
select_tool_excluding(rows, excluded_tool_ids) == TypeError

\* resolve_cta_url that tries official_url before the affiliate link
resolve_cta_url_official_first(tool) ==
    LET affiliate_url == Strip(tool.affiliate_url)
        official_url  == Strip(tool.official_url)
    IN  IF official_url # "" THEN [url |-> official_url]
        ELSE IF affiliate_url # "" /\ ~is_placeholder_url(affiliate_url)
        THEN [url |-> affiliate_url]
        ELSE ValueError

\* resolve_cta_url: [url |-> ...] for a returned URL, ValueError when it raises
resolve_cta_url(tool) ==
    LET status        == Lower(Strip(tool.status))
        affiliate_url == Strip(tool.affiliate_url)
        official_url  == Strip(tool.official_url)
    IN  IF /\ status \in AFFILIATE_READY_STATUSES
           /\ affiliate_url # ""
           /\ ~is_placeholder_url(affiliate_url)
        THEN [url |-> affiliate_url]
        ELSE IF official_url # "" THEN [url |-> official_url]
        ELSE IF affiliate_url # "" /\ ~is_placeholder_url(affiliate_url)
        THEN [url |-> affiliate_url]
        ELSE ValueError

\* ------------------------------------------------------------------------
\* Inputs of the tool selector
\* ------------------------------------------------------------------------
ToolIds        == {"tool-1", "tool-2"}
ToolName(id)   == IF id = "tool-1" THEN "Canva" ELSE "Notion"

ToolRows ==
    {[tool_id |-> id, name |-> ToolName(id), category |-> "x",
      official_url |-> "https://www.canva.com", affiliate_url |-> a,
      status |-> st, last_posted_at |-> lp] :
        id \in ToolIds, a \in {"https://example.com/a8/x", "https://a8.net/real"},
        st \in {"approved", "Approved", "pending"},
        lp \in {"", "n/a", "2026-02-10", "2026-02-13"}}


\* ------------------------------------------------------------------------
\* Specification SpecTool: select_tool applied to every pool
\* ------------------------------------------------------------------------
InitTool ==
    /\ tl_rows \in SeqsUpTo(ToolRows, MaxToolRows)
    /\ tl_op = "idle"
    /\ tl_excluded = {}
    /\ tl_result = None
    /\ TopicOff /\ BudgetOff /\ RunOff /\ FnOff

SelectToolCall ==
    /\ tl_op = "idle"
    /\ tl_op' = "selected"
    /\ tl_result' = select_tool(tl_rows)
    /\ UNCHANGED <<tl_rows, tl_excluded>>
    /\ UNCHANGED <<topicVars, budgetVars, runVars, fnVars>>

SelectToolExcludingCall ==
    /\ tl_op = "idle"
    /\ \E excluded \in SUBSET ToolIds :
        /\ tl_excluded' = excluded
        /\ tl_result' = select_tool_excluding(tl_rows, excluded)
    /\ tl_op' = "selected_excluding"
    /\ UNCHANGED tl_rows
    /\ UNCHANGED <<topicVars, budgetVars, runVars, fnVars>>

NextTool == SelectToolCall \/ SelectToolExcludingCall

SpecTool == InitTool /\ [][NextTool]_vars

\* ------------------------------------------------------------------------
\* Claims on the tool selector (checked under SpecTool)
\* ------------------------------------------------------------------------
Monetizable(row) ==
    /\ Lower(Strip(row.status)) \in {"approved", "active", "affiliate_ready"}
    /\ ~is_placeholder_url(row.affiliate_url)

\* position of last_posted_at in time: empty and unparsable values come
\* before every real date
PostedOrder(row) ==
    IF row.last_posted_at \in {"2026-02-10", "2026-02-13", "2026-02-14", "2026-02-15"}
    THEN StrRank(row.last_posted_at) ELSE 0

C9_RespectsExcludedIds ==
    (/\ tl_op = "selected_excluding"
     /\ \E i \in 1..Len(tl_rows) : tl_rows[i].tool_id \notin tl_excluded)
    => /\ \E i \in 1..Len(tl_rows) : tl_rows[i] = tl_result
       /\ tl_result.tool_id \notin tl_excluded

\* C12: select_tool fails exactly when the row list is empty; on a non-empty
\* list it returns one of the given rows, also when no row is monetizable.
C12_FailsOnlyOnEmpty ==
    tl_op = "selected" =>
        /\ (tl_result = ValueError) <=> (tl_rows = <<>>)
        /\ tl_rows # <<>> =>
              /\ tl_result # None
              /\ \E i \in 1..Len(tl_rows) : tl_rows[i] = tl_result

\* two rows, none monetizable, and one of them was returned
C12_Witness ==
    /\ tl_op = "selected"
    /\ Len(tl_rows) = 2
    /\ \A i \in 1..Len(tl_rows) : ~Monetizable(tl_rows[i])
    /\ tl_result = tl_rows[2]
    /\ tl_rows[2] # tl_rows[1]

\* ------------------------------------------------------------------------
\* Specification SpecCta: resolve_cta_url applied to one tool row
\* ------------------------------------------------------------------------

CtaTools ==
    {[tool_id |-> "tool-1", name |-> "Canva", category |-> "x",
      official_url |-> o, affiliate_url |-> a, status |-> st,
      last_posted_at |-> ""] :
        o \in {"", "   ", "https://www.canva.com"},
        a \in {"", "   ", "https://example.com/a8/x", "HTTPS://EXAMPLE.COM/A8/X",
               "https://a8.net/replace-me", "<your-affiliate-link>",
               "https://a8.net/real", " https://a8.net/real"},
        st \in {"approved", "Approved", " approved", "active", "affiliate_ready",
                "pending", ""}}

InitCta ==
    /\ tl_rows \in {<<tool>> : tool \in CtaTools}
    /\ tl_op = "idle"
    /\ tl_excluded = {}
    /\ tl_result = None
    /\ TopicOff /\ BudgetOff /\ RunOff /\ FnOff

ResolveCtaUrlCall ==
    /\ tl_op = "idle"
    /\ tl_op' = "resolved"
    /\ tl_result' = resolve_cta_url(tl_rows[1])
    /\ UNCHANGED <<tl_rows, tl_excluded>>
    /\ UNCHANGED <<topicVars, budgetVars, runVars, fnVars>>

NextCta == ResolveCtaUrlCall

SpecCta == InitCta /\ [][NextCta]_vars

\* ------------------------------------------------------------------------
\* Claims on resolve_cta_url (checked under SpecCta)
\* ------------------------------------------------------------------------
\* field values as the function reads them: surrounding whitespace removed,
\* status in lower case
ReadyStatus(tool) ==
    Lower(Strip(tool.status)) \in {"approved", "active", "affiliate_ready"}

HasPlaceholderToken(url) == PlaceholderTokensIn(Lower(url)) # {}

AffiliateUsable(tool) ==
    /\ Strip(tool.affiliate_url) # ""
    /\ ~HasPlaceholderToken(Strip(tool.affiliate_url))

\* C11: resolve_cta_url returns the affiliate_url when the status is ready
\* and the affiliate_url is non-empty and no placeholder; else the
\* official_url when it is non-empty; else the affiliate_url when it is
\* non-empty and no placeholder; else it fails.  A value taken from
\* affiliate_url is never empty and holds no placeholder token.
C11_ResolvePrecedence ==
    tl_op = "resolved" =>
        LET tool      == tl_rows[1]
            affiliate == Strip(tool.affiliate_url)
            official  == Strip(tool.official_url)
            fromAffiliate ==
                \/ ReadyStatus(tool) /\ AffiliateUsable(tool)
                \/ official = "" /\ AffiliateUsable(tool)
        IN  /\ IF ReadyStatus(tool) /\ AffiliateUsable(tool)
               THEN tl_result = [url |-> affiliate]
               ELSE IF official # "" THEN tl_result = [url |-> official]
               ELSE IF AffiliateUsable(tool) THEN tl_result = [url |-> affiliate]
               ELSE tl_result = ValueError
            /\ fromAffiliate =>
                  /\ ~Raised(tl_result)
                  /\ tl_result.url # ""
                  /\ ~HasPlaceholderToken(tl_result.url)

\* a ready tool with a usable affiliate link and an official URL got the
\* affiliate link
C11_Witness ==
    /\ tl_op = "resolved"
    /\ tl_rows[1].status = "Approved"
    /\ tl_rows[1].affiliate_url = " https://a8.net/real"
    /\ tl_rows[1].official_url = "https://www.canva.com"
    /\ tl_result = [url |-> "https://a8.net/real"]

\* ------------------------------------------------------------------------
\* scripts/publish.py: budget throttle
\* ------------------------------------------------------------------------
\* month_str.split("-", 1) followed by int(year), int(month): the strings
\* for which neither the unpacking nor int() raises, and the two numbers
MonthParses(month_str) ==
    month_str \in {"2026-02", "2026-2", "2026-03", "2025-02"}

MonthYear(month_str) == IF month_str = "2025-02" THEN 2025 ELSE 2026

MonthNumber(month_str) == IF month_str = "2026-03" THEN 3 ELSE 2

within_month(day, month_str) ==
    IF month_str = "" THEN FALSE
    ELSE IF MonthParses(month_str)
         THEN day.year = MonthYear(month_str) /\ day.month = MonthNumber(month_str)
         ELSE FALSE

\* float(s): the strings it accepts, and the amount (in whole dollars)
FloatParses(s) == s \in {"0", "2", "3", "6"}

FloatOf(s) ==
    CASE s = "0" -> 0
      [] s = "2" -> 2
      [] s = "3" -> 3
      [] s = "6" -> 6

\* the loop of should_skip_for_budget over costs_rows[1..n]
RECURSIVE current_month_total(_, _, _)
current_month_total(today, costs_rows, n) ==
    IF n = 0 THEN 0
    ELSE LET row    == costs_rows[n]
             before == current_month_total(today, costs_rows, n - 1)
             amount == IF row.total_usd = "" THEN "0" ELSE row.total_usd
         IN  IF within_month(today, row.month) /\ FloatParses(amount)
             THEN before + FloatOf(amount)
             ELSE before

\* should_skip_for_budget that compares with >= instead of >
should_skip_at_limit(today, costs_rows, max_monthly_usd) ==
    IF current_month_total(today, costs_rows, Len(costs_rows)) < max_monthly_usd
    THEN FALSE
    ELSE today.day % 2 = 1

should_skip_for_budget(today, costs_rows, max_monthly_usd) ==
    IF current_month_total(today, costs_rows, Len(costs_rows)) <= max_monthly_usd
    THEN FALSE
    ELSE today.day % 2 = 1

\* ------------------------------------------------------------------------
\* Inputs of the budget throttle
\* ------------------------------------------------------------------------
CostRows ==
    [month : {"", "2026", "2026-02", "2026-2", "2026-03", "2025-02"},
     total_usd : {"", "abc", "2", "3", "6"}]

\* ------------------------------------------------------------------------
\* Specification SpecBudget: should_skip_for_budget on every input
\* ------------------------------------------------------------------------
InitBudget ==
    /\ bg_today \in [year : {2026}, month : {2, 3}, day : {13, 14}]
    /\ bg_costs \in SeqsUpTo(CostRows, MaxCostRows)
    /\ bg_max \in {0, 5}
    /\ bg_op = "idle"
    /\ bg_skip = FALSE
    /\ TopicOff /\ ToolOff /\ RunOff /\ FnOff

ShouldSkipCall ==
    /\ bg_op = "idle"
    /\ bg_op' = "decided"
    /\ bg_skip' = should_skip_for_budget(bg_today, bg_costs, bg_max)
    /\ UNCHANGED <<bg_today, bg_costs, bg_max>>
    /\ UNCHANGED <<topicVars, toolVars, runVars, fnVars>>

NextBudget == ShouldSkipCall

SpecBudget == InitBudget /\ [][NextBudget]_vars

\* ------------------------------------------------------------------------
\* Claim on the budget throttle (checked under SpecBudget)
\* ------------------------------------------------------------------------
\* the rows that count: month of the current year and month, amount a number
CountedRows(today, costs_rows) ==
    {i \in 1..Len(costs_rows) :
        /\ costs_rows[i].month \in
              (IF today.year = 2026 /\ today.month = 2 THEN {"2026-02", "2026-2"}
               ELSE IF today.year = 2026 /\ today.month = 3 THEN {"2026-03"}
               ELSE {})
        /\ costs_rows[i].total_usd \in {"2", "3", "6"}}

RECURSIVE SumAmounts(_, _)
SumAmounts(costs_rows, idx) ==
    IF idx = {} THEN 0
    ELSE LET i == CHOOSE j \in idx : TRUE
         IN  FloatOf(costs_rows[i].total_usd) + SumAmounts(costs_rows, idx \ {i})

\* C4: should_skip_for_budget returns true exactly when the total_usd of the
\* rows of the current year and month sums to strictly more than
\* max_monthly_usd and the day of the month is odd; rows of other months and
\* rows with an unparsable amount do not count.
C4_BudgetThrottle ==
    bg_op = "decided" =>
        (bg_skip <=>
            /\ SumAmounts(bg_costs, CountedRows(bg_today, bg_costs)) > bg_max
            /\ bg_today.day % 2 = 1)

\* skip on an odd day over a budget of 5, next to a row that does not count
\* (another month, or an amount that is not a number)
C4_Witness ==
    /\ bg_op = "decided"
    /\ bg_skip
    /\ bg_max = 5
    /\ Cardinality(CountedRows(bg_today, bg_costs)) < Len(bg_costs)
    /\ \E i \in 1..Len(bg_costs) : bg_costs[i].total_usd = "6"

\* ------------------------------------------------------------------------
\* Texts
\* A body is the sequence of its paragraphs (the parts between blank lines).
\* A paragraph carries what the pipeline reads from it:
\*   name       identifies its wording: two paragraphs of the same name are
\*              the same string, sentence for sentence
\*   visible    characters left after removing tags and whitespace
\*   length     len() of the paragraph
\*   nsent      non-blank pieces after splitting on the full stop and newline
\*   anchors    its <a ...> tags, each [href, rel]; rel = NoRel without one
\*   banned     positions in BANNED_PHRASES of the phrases it contains
\*   disclosure whether it contains disclosure_text
\*   md_links   whether it contains [text](http...)
\* ------------------------------------------------------------------------
NoRel == "<none>"

Paragraph(name, visible, length, nsent) ==
    [name |-> name, visible |-> visible, length |-> length, nsent |-> nsent,
     anchors |-> <<>>, banned |-> {}, disclosure |-> FALSE, md_links |-> FALSE]

RECURSIVE SumOver(_, _)
SumOver(f, n) == IF n = 0 THEN 0 ELSE f[n] + SumOver(f, n - 1)

RECURSIVE Flatten(_, _)
Flatten(f, n) == IF n = 0 THEN <<>> ELSE Flatten(f, n - 1) \o f[n]

BodyAnchors(body) == Flatten([i \in 1..Len(body) |-> body[i].anchors], Len(body))

\* len("\n\n".join(paragraphs))
BodyLength(body) ==
    SumOver([i \in 1..Len(body) |-> body[i].length], Len(body))
    + (IF Len(body) > 0 THEN 2 * (Len(body) - 1) ELSE 0)

\* ------------------------------------------------------------------------
\* scripts/quality_gate.py
\* ------------------------------------------------------------------------
BANNED_PHRASES == 1..7

\* _char_count of a rendered post: the front matter is removed first
char_count(text) ==
    SumOver([i \in 1..Len(text.body) |-> text.body[i].visible], Len(text.body))

\* _duplicate_ratio as the pair <<duplicates, len(sentences)>>; the front
\* matter lines are sentences too, and its two "---" lines are equal
duplicate_ratio(text) ==
    LET body    == text.body
        \* every occurrence of a sentence after its first is a duplicate
        bodyDup == SumOver([i \in 1..Len(body) |->
                        IF \E j \in 1..(i - 1) : body[j].name = body[i].name
                        THEN body[i].nsent ELSE 0], Len(body))
        bodyAll == SumOver([i \in 1..Len(body) |-> body[i].nsent], Len(body))
        fmDup   == IF text.front_matter.lines >= 2 THEN 1 ELSE 0
    IN  <<bodyDup + fmDup, bodyAll + text.front_matter.lines>>

\* the src/href test of _find_external_anchors: href="https?://[^"]+"
IsExternalHref(href) ==
    href \in {"https://www.canva.com", "https://www.notion.so",
              "https://a8.net/real", "https://example.com/a8/x",
              "https://a8.net/replace-me", "http://tool.example/model"}

find_external_anchors(text) ==
    SelectSeq(BodyAnchors(text.body), LAMBDA a : IsExternalHref(a.href))

\* rel_match.group(1).lower().split(), the empty set without a rel attribute
RelValues(rel) ==
    CASE rel = "sponsored nofollow" -> {"sponsored", "nofollow"}
      [] rel = "nofollow sponsored" -> {"sponsored", "nofollow"}
      [] rel = "Sponsored NoFollow" -> {"sponsored", "nofollow"}
      [] rel = "nofollow"           -> {"nofollow"}
      [] rel = "sponsored"          -> {"sponsored"}
      [] OTHER                      -> {}

TextBanned(text) ==
    text.front_matter.banned \cup
    UNION {text.body[i].banned : i \in 1..Len(text.body)}

RECURSIVE BannedIssues(_, _)
BannedIssues(found, phrase) ==
    IF phrase > 7 THEN <<>>
    ELSE (IF phrase \in found THEN <<"banned">> ELSE <<>>)
         \o BannedIssues(found, phrase + 1)

RECURSIVE RelIssues(_)
RelIssues(anchors) ==
    IF anchors = <<>> THEN <<>>
    ELSE (IF "sponsored" \notin RelValues(Head(anchors).rel)
             \/ "nofollow" \notin RelValues(Head(anchors).rel)
          THEN <<"rel">> ELSE <<>>)
         \o RelIssues(Tail(anchors))

\* the issues list of run_quality_gate, one tag per appended issue;
\* max_duplicate_ratio is given in percent
GateIssues(text, min_chars, max_duplicate_ratio) ==
    LET ratio   == duplicate_ratio(text)
        anchors == find_external_anchors(text)
    IN  (IF char_count(text) < min_chars THEN <<"chars">> ELSE <<>>)
     \o (IF ratio[2] > 0 /\ 100 * ratio[1] > max_duplicate_ratio * ratio[2]
          THEN <<"duplicate">> ELSE <<>>)
     \o BannedIssues(TextBanned(text), 1)
     \o (IF \/ text.front_matter.disclosure
             \/ \E i \in 1..Len(text.body) : text.body[i].disclosure
          THEN <<>> ELSE <<"disclosure">>)
     \o (IF \/ text.front_matter.md_links
             \/ \E i \in 1..Len(text.body) : text.body[i].md_links
          THEN <<"markdown_link">> ELSE <<>>)
     \o (IF anchors = <<>> THEN <<"no_cta">> ELSE <<>>)
     \o RelIssues(anchors)

\* run_quality_gate that stops at the first failed check
run_quality_gate_short_circuit(text, min_chars, max_duplicate_ratio) ==
    LET issues == GateIssues(text, min_chars, max_duplicate_ratio)
    IN  [passed |-> issues = <<>>,
         issues |-> IF issues = <<>> THEN <<>> ELSE <<Head(issues)>>]

\* run_quality_gate that accepts only rel="sponsored nofollow" as written
run_quality_gate_exact_rel(text, min_chars, max_duplicate_ratio) ==
    LET issues == GateIssues(text, min_chars, max_duplicate_ratio)
                  \o SelectSeq([i \in 1..Len(find_external_anchors(text)) |->
                                   IF find_external_anchors(text)[i].rel
                                          \in {"nofollow sponsored", "Sponsored NoFollow"}
                                   THEN "rel" ELSE ""],
                               LAMBDA tag : tag # "")
    IN  [passed |-> issues = <<>>, issues |-> issues]

\* run_quality_gate without the duplicate-ratio check
run_quality_gate_no_duplicate_check(text, min_chars, max_duplicate_ratio) ==
    LET issues == SelectSeq(GateIssues(text, min_chars, max_duplicate_ratio),
                            LAMBDA tag : tag # "duplicate")
    IN  [passed |-> issues = <<>>, issues |-> issues]

RECURSIVE FirstOfEachTag(_)
FirstOfEachTag(issues) ==
    IF issues = <<>> THEN <<>>
    ELSE <<Head(issues)>>
         \o FirstOfEachTag(SelectSeq(Tail(issues), LAMBDA tag : tag # Head(issues)))

\* run_quality_gate that reports each failed check once
run_quality_gate_one_issue_per_check(text, min_chars, max_duplicate_ratio) ==
    LET issues == FirstOfEachTag(GateIssues(text, min_chars, max_duplicate_ratio))
    IN  [passed |-> issues = <<>>, issues |-> issues]

run_quality_gate(text, min_chars, max_duplicate_ratio) ==
    LET issues == GateIssues(text, min_chars, max_duplicate_ratio)
    IN  [passed |-> issues = <<>>, issues |-> issues]

\* ------------------------------------------------------------------------
\* scripts/generate_article.py
\* ------------------------------------------------------------------------
\* _ensure_cta_block: <p><a href="{cta_url}" rel="sponsored nofollow" ...>
ensure_cta_block(tool_name, cta_url) ==
    [Paragraph("cta", 9 + Len(tool_name), 72 + Len(tool_name) + Len(cta_url), 1)
        EXCEPT !.anchors = <<[href |-> cta_url, rel |-> "sponsored nofollow"]>>]

\* the regular expression of _cta_count on one rel attribute:
\* rel="[^"]*sponsored[^"]*nofollow[^"]*"
CtaRelMatches(rel) == rel \in {"sponsored nofollow"}

\* '>' in url, for the URLs of the model
ContainsGt(url) == url \in {"https://tool.example/a>b"}

\* _cta_count: the tags <a href="..." rel="..." ...> that match
\* <a\s+[^>]*rel="[^"]*sponsored[^"]*nofollow[^"]*"[^>]*>; [^>]* does not
\* get past a '>' inside the href that precedes rel
cta_count(body) ==
    Len(SelectSeq(BodyAnchors(body),
                  LAMBDA a : CtaRelMatches(a.rel) /\ ~ContainsGt(a.href)))

InsertAt(seq, pos, x) ==
    SubSeq(seq, 1, pos) \o <<x>> \o SubSeq(seq, pos + 1, Len(seq))

\* the while loop of _ensure_min_cta_blocks
RECURSIVE InsertCtaUntil(_, _, _)
InsertCtaUntil(paragraphs, cta, min_count) ==
    IF cta_count(paragraphs) < min_count
    THEN InsertCtaUntil(
            InsertAt(paragraphs, IF Len(paragraphs) < 2 THEN Len(paragraphs) ELSE 2, cta),
            cta, min_count)
    ELSE paragraphs

\* a call that does not return
NeverReturns == [never_returns |-> TRUE]

\* the while loop of _ensure_min_cta_blocks has no exit: the count is below
\* min_count and the block it inserts is not counted
ensure_min_cta_blocks_loops(body, tool_name, cta_url, min_count) ==
    /\ cta_count(body) < min_count
    /\ cta_count(<<ensure_cta_block(tool_name, cta_url)>>) = 0

\* _ensure_min_cta_blocks when it returns; a body without a non-blank
\* paragraph becomes the one paragraph body.strip()
ensure_min_cta_blocks(body, tool_name, cta_url, min_count) ==
    InsertCtaUntil(IF body = <<>> THEN <<Paragraph("empty", 0, 0, 0)>> ELSE body,
                   ensure_cta_block(tool_name, cta_url), min_count)

visible_char_count(body) ==
    SumOver([i \in 1..Len(body) |-> body[i].visible], Len(body))

\* the eight sections and three supplements of _fallback_article; the
\* numbers are the lengths of the fixed wording around the parameters
FallbackSections(keyword, intent, tool_name, cta_url, disclosure_text) ==
    << [Paragraph("intro", 116 + Len(disclosure_text) + Len(keyword) + Len(intent),
                  116 + Len(disclosure_text) + Len(keyword) + Len(intent), 3)
            EXCEPT !.disclosure = TRUE],
       ensure_cta_block(tool_name, cta_url),
       Paragraph("goal", 160 + Len(tool_name), 160 + Len(tool_name), 3),
       Paragraph("data", 184, 184, 4),
       Paragraph("cost", 169, 169, 4),
       Paragraph("security", 147, 147, 3),
       Paragraph("rollout", 132, 132, 3),
       Paragraph("closing", 111 + Len(keyword) + Len(tool_name),
                 111 + Len(keyword) + Len(tool_name), 3),
       ensure_cta_block(tool_name, cta_url) >>

FallbackSupplements(keyword, tool_name) ==
    << Paragraph("supplement1", 146, 146, 3),
       Paragraph("supplement2", 122 + Len(tool_name), 122 + Len(tool_name), 3),
       Paragraph("supplement3", 115 + Len(keyword), 115 + Len(keyword), 3) >>

\* while _visible_char_count(...) < min_chars + 80: sections.extend(supplements)
RECURSIVE ExtendSections(_, _, _)
ExtendSections(sections, supplements, min_chars) ==
    IF visible_char_count(sections) < min_chars + 80
    THEN ExtendSections(sections \o supplements, supplements, min_chars)
    ELSE sections

fallback_article(keyword, intent, tool_name, cta_url, disclosure_text, min_chars) ==
    LET sections ==
            ExtendSections(
                FallbackSections(keyword, intent, tool_name, cta_url, disclosure_text),
                FallbackSupplements(keyword, tool_name), min_chars)
    IN  IF ensure_min_cta_blocks_loops(sections, tool_name, cta_url, 2)
        THEN NeverReturns
        ELSE [body |-> ensure_min_cta_blocks(sections, tool_name, cta_url, 2),
              used_model |-> FALSE]

\* What _call_huggingface can give: an exception (transport error or HTTP
\* error status, error payload, unexpected format), or a generated text.  A
\* generated text is given as the body _parse_model_output makes of it.
CallRaised(kind) == [ok |-> FALSE, body |-> <<>>, kind |-> kind]
CallFailed == CallRaised("transport_error")
Generated(body) == [ok |-> TRUE, body |-> body, kind |-> "generated"]

generate_article(keyword, intent, tool_name, cta_url, disclosure_text, min_chars, provider, force_template, token, response) ==
    LET fallback == fallback_article(keyword, intent, tool_name, cta_url,
                                     disclosure_text, min_chars)
    IN  IF fallback = NeverReturns THEN NeverReturns
        ELSE IF force_template THEN fallback
        ELSE IF provider # "huggingface_free" THEN fallback
        ELSE IF Strip(token) = "" THEN fallback
        ELSE IF ~response.ok THEN fallback
        ELSE
            LET disclosed ==
                    IF \E i \in 1..Len(response.body) : response.body[i].disclosure
                    THEN response.body
                    ELSE <<[Paragraph("disclosure", Len(disclosure_text),
                                      Len(disclosure_text), 1)
                               EXCEPT !.disclosure = TRUE]>> \o response.body
                body == ensure_min_cta_blocks(disclosed, tool_name, cta_url, 2)
            IN  IF ensure_min_cta_blocks_loops(disclosed, tool_name, cta_url, 2)
                THEN NeverReturns
                ELSE IF BodyLength(body) < min_chars THEN fallback
                ELSE [body |-> body, used_model |-> TRUE]

\* config["affiliate"]["disclosure_text"] and config["generation"]["provider"]
DisclosureText == "Ads and affiliate links."
Provider       == "huggingface_free"

\* ------------------------------------------------------------------------
\* Specification SpecDraft: generate_article applied to one set of arguments
\* ------------------------------------------------------------------------
DraftCtaUrls  == {"https://www.canva.com", "https://tool.example/a>b"}

\* outcomes of the generation call: the three ways it raises; texts of
\* about 1500, 2300 and 300 characters; a text that is mostly markup
DraftResponses ==
    { CallRaised("transport_error"), CallRaised("error_payload"),
      CallRaised("unexpected_format"),
      Generated(<<Paragraph("m1", 800, 800, 9), Paragraph("m2", 700, 700, 8)>>),
      Generated(<<Paragraph("m1", 800, 800, 9), Paragraph("m2", 700, 700, 8),
                  Paragraph("m7", 800, 800, 9)>>),
      Generated(<<Paragraph("m4", 500, 800, 9), Paragraph("m5", 400, 700, 8)>>),
      Generated(<<Paragraph("m6", 300, 300, 4)>>) }

DraftArgs ==
    [keyword : {"ai"}, intent : {"compare"}, tool_name : {"Canva"},
     cta_url : DraftCtaUrls, disclosure_text : {DisclosureText},
     min_chars : {1400, 2200, 3000}, provider : {"huggingface_free", "openai"},
     force_template : BOOLEAN, token : {"", "   ", "hf_token"}, response : DraftResponses]

InitDraft ==
    /\ fn_args \in DraftArgs
    /\ fn_op = "idle"
    /\ fn_result = None
    /\ TopicOff /\ ToolOff /\ BudgetOff /\ RunOff

GenerateArticleCall ==
    /\ fn_op = "idle"
    /\ fn_op' = "generate_article"
    /\ fn_result' = generate_article(
            fn_args.keyword, fn_args.intent, fn_args.tool_name, fn_args.cta_url,
            fn_args.disclosure_text, fn_args.min_chars, fn_args.provider,
            fn_args.force_template, fn_args.token, fn_args.response)
    /\ UNCHANGED fn_args
    /\ UNCHANGED <<topicVars, toolVars, budgetVars, runVars>>

NextDraft == GenerateArticleCall

SpecDraft == InitDraft /\ [][NextDraft]_vars

\* ------------------------------------------------------------------------
\* Claims on generate_article (checked under SpecDraft)
\* ------------------------------------------------------------------------
\* len() of the generated body once the disclosure and the CTA blocks are in
NormalizedLength(a) ==
    LET text == a.response.body
        disclosed ==
            IF \E i \in 1..Len(text) : text[i].disclosure THEN text
            ELSE <<[Paragraph("disclosure", Len(a.disclosure_text),
                              Len(a.disclosure_text), 1)
                       EXCEPT !.disclosure = TRUE]>> \o text
    IN  BodyLength(ensure_min_cta_blocks(disclosed, a.tool_name, a.cta_url, 2))

\* C15: generate_article returns a draft whatever its arguments and the
\* outcome of the generation call, and the draft is the template fallback
\* with used_model = false when force_template is set, the provider is not
\* huggingface_free, no token is configured, the call fails, or the
\* normalized body is shorter than min_chars.
C15_AlwaysReturnsDraft ==
    fn_op = "generate_article" =>
        LET a == fn_args
            fallback == fallback_article(a.keyword, a.intent, a.tool_name,
                            a.cta_url, a.disclosure_text, a.min_chars)
        IN  /\ fn_result # NeverReturns
            /\ fn_result # NeverReturns =>
                  /\ fn_result.used_model \in BOOLEAN
                  /\ (\/ a.force_template
                      \/ a.provider # "huggingface_free"
                      \/ Strip(a.token) = ""
                      \/ ~a.response.ok
                      \/ NormalizedLength(a) < a.min_chars)
                     => /\ fn_result = fallback
                        /\ fn_result.used_model = FALSE

\* ------------------------------------------------------------------------
\* scripts/common.py: slugify
\* ------------------------------------------------------------------------
\* strip, lower, whitespace and every character outside [a-z0-9-] to "-",
\* runs of "-" to one, "-" stripped at both ends, "post" if nothing is left;
\* on the texts f"{keyword}-{name}" of the model
slugify(text) ==
    CASE text = "ai-Canva"   -> "ai-canva"
      [] text = "AI!-Canva"  -> "ai-canva"
      [] text = "seo-Canva"  -> "seo-canva"
      [] text = "ai-Notion"  -> "ai-notion"
      [] text = "AI!-Notion" -> "ai-notion"
      [] text = "seo-Notion" -> "seo-notion"
      [] text = "!-!"        -> "post"

\* ------------------------------------------------------------------------
\* scripts/publish.py: slugs, rendering, the run
\* ------------------------------------------------------------------------
\* the while loop of generate_unique_slug
RECURSIVE NextFreeSlug(_, _, _, _, _)
NextFreeSlug(base_slug, existing_names, date_prefix, candidate, suffix) ==
    IF (date_prefix \o "-" \o candidate) \in existing_names
    THEN NextFreeSlug(base_slug, existing_names, date_prefix,
                      base_slug \o "-" \o ToString(suffix), suffix + 1)
    ELSE candidate

\* generate_unique_slug that tries the suffix 2 only
generate_unique_slug_single_suffix(base_slug, existing_names, date_prefix) ==
    IF (date_prefix \o "-" \o base_slug) \in existing_names
    THEN base_slug \o "-2"
    ELSE base_slug

\* generate_unique_slug; existing_names are the stems of posts_dir/*.md
generate_unique_slug(base_slug, existing_names, date_prefix) ==
    NextFreeSlug(base_slug, existing_names, date_prefix, base_slug, 2)

\* `phrase in value` for the banned phrases and the strings that go into
\* the front matter
BannedIn(value) == {}

\* `disclosure_text in value` and the search for [text](http...) in value,
\* for the same strings
DisclosureIn(value) == FALSE
MarkdownLinkIn(value) == FALSE

\* build_post_markdown: eleven front matter lines between two "---" lines
\* ahead of body.strip(); twelve non-blank lines when split by the gate
build_post_markdown(keyword, intent, tool, cta_url, body) ==
    [front_matter |->
        [lines  |-> 12,
         banned |-> BannedIn(keyword) \cup BannedIn(intent)
                    \cup BannedIn(tool.name) \cup BannedIn(cta_url),
         disclosure |-> \/ DisclosureIn(keyword) \/ DisclosureIn(intent)
                        \/ DisclosureIn(tool.name) \/ DisclosureIn(cta_url),
         md_links |-> \/ MarkdownLinkIn(keyword) \/ MarkdownLinkIn(intent)
                      \/ MarkdownLinkIn(tool.name) \/ MarkdownLinkIn(cta_url)],
     body |-> body]

update_tool_last_posted(rows, selected_tool_id, posted_at) ==
    [i \in 1..Len(rows) |->
        IF rows[i].tool_id = selected_tool_id
        THEN [rows[i] EXCEPT !.last_posted_at = IsoFormat(posted_at)]
        ELSE rows[i]]

\* ------------------------------------------------------------------------
\* Specification SpecSlug: generate_unique_slug applied to one directory
\* ------------------------------------------------------------------------
\* files of the output directory: name, whether *.md matches it, path.stem
SlugFiles ==
    { [name |-> "2026-02-13-ai-tool.md",   md |-> TRUE,  stem |-> "2026-02-13-ai-tool"],
      [name |-> "2026-02-13-ai-tool-2.md", md |-> TRUE,  stem |-> "2026-02-13-ai-tool-2"],
      [name |-> "2026-02-13-ai-tool-3.md", md |-> TRUE,  stem |-> "2026-02-13-ai-tool-3"],
      [name |-> "2026-02-14-ai-tool.md",   md |-> TRUE,  stem |-> "2026-02-14-ai-tool"],
      [name |-> "2026-02-14-ai-tool-2.md", md |-> TRUE,  stem |-> "2026-02-14-ai-tool-2"],
      [name |-> "2026-02-13-seo.txt",      md |-> FALSE, stem |-> "2026-02-13-seo"],
      [name |-> "2026-02-13-seo-2.md",     md |-> TRUE,  stem |-> "2026-02-13-seo-2"] }

\* {path.stem for path in posts_dir.glob("*.md")}
PostStems(files) == {f.stem : f \in {g \in files : g.md}}


InitSlug ==
    /\ fn_args \in [base_slug : {"ai-tool", "seo"}, files : SUBSET SlugFiles,
            date_prefix : {"2026-02-13", "2026-02-14"}]
    /\ fn_op = "idle"
    /\ fn_result = None
    /\ TopicOff /\ ToolOff /\ BudgetOff /\ RunOff

GenerateUniqueSlugCall ==
    /\ fn_op = "idle"
    /\ fn_op' = "generate_unique_slug"
    /\ fn_result' = [slug |-> generate_unique_slug(fn_args.base_slug,
                                  PostStems(fn_args.files), fn_args.date_prefix)]
    /\ UNCHANGED fn_args
    /\ UNCHANGED <<topicVars, toolVars, budgetVars, runVars>>

NextSlug == GenerateUniqueSlugCall

SpecSlug == InitSlug /\ [][NextSlug]_vars

\* ------------------------------------------------------------------------
\* Claims on generate_unique_slug (checked under SpecSlug)
\* ------------------------------------------------------------------------
\* an existing post file has the stem {date_prefix}-{slug}
StemTaken(slug) ==
    \E f \in fn_args.files :
        f.md /\ f.stem = fn_args.date_prefix \o "-" \o slug

Suffixed(k) == fn_args.base_slug \o "-" \o ToString(k)

\* C20: generate_unique_slug returns base_slug when no post file has the
\* stem {date_prefix}-{base_slug}; otherwise base_slug-k for the smallest
\* k >= 2 whose stem is free.  The slug returned is not the stem of an
\* existing file, and files of another date cause no suffix.
C20_SmallestFreeSuffix ==
    fn_op = "generate_unique_slug" =>
        /\ ~StemTaken(fn_result.slug)
        /\ ~StemTaken(fn_args.base_slug) => fn_result.slug = fn_args.base_slug
        /\ StemTaken(fn_args.base_slug) =>
              \E k \in 2..(Cardinality(fn_args.files) + 2) :
                  /\ fn_result.slug = Suffixed(k)
                  /\ \A j \in 2..(k - 1) : StemTaken(Suffixed(j))

\* ai-tool and ai-tool-2 of the day exist, next to a file of another day:
\* the slug is ai-tool-3
C20_Witness ==
    /\ fn_op = "generate_unique_slug"
    /\ fn_args.base_slug = "ai-tool"
    /\ fn_args.date_prefix = "2026-02-13"
    /\ fn_result.slug = "ai-tool-3"
    /\ \E f \in fn_args.files : f.name = "2026-02-14-ai-tool.md"

\* ------------------------------------------------------------------------
\* Specification SpecGate: run_quality_gate applied to one text
\* ------------------------------------------------------------------------
Anchor(href, rel) == [href |-> href, rel |-> rel]

GateParagraphs ==
    { Paragraph("long", 1500, 1500, 10),
      Paragraph("short", 20, 20, 1),
      [Paragraph("disc_long", 1500, 1500, 10) EXCEPT !.disclosure = TRUE],
      [Paragraph("cta", 14, 86, 1) EXCEPT
          !.anchors = <<Anchor("https://www.canva.com", "sponsored nofollow")>>],
      [Paragraph("cta_disc_long", 1500, 1586, 10) EXCEPT
          !.anchors = <<Anchor("https://www.canva.com", "sponsored nofollow")>>,
          !.disclosure = TRUE],
      [Paragraph("cta_swapped", 14, 86, 1) EXCEPT
          !.anchors = <<Anchor("https://www.notion.so", "nofollow sponsored")>>],
      [Paragraph("cta_upper", 14, 86, 1) EXCEPT
          !.anchors = <<Anchor("https://a8.net/real", "Sponsored NoFollow")>>],
      [Paragraph("cta_nofollow", 14, 76, 1) EXCEPT
          !.anchors = <<Anchor("https://www.canva.com", "nofollow")>>],
      [Paragraph("cta_norel", 14, 60, 1) EXCEPT
          !.anchors = <<Anchor("http://tool.example/model", NoRel)>>],
      [Paragraph("internal", 14, 40, 1) EXCEPT
          !.anchors = <<Anchor("/about", NoRel)>>],
      [Paragraph("banned3", 30, 30, 1) EXCEPT !.banned = {3}],
      [Paragraph("banned17", 40, 40, 2) EXCEPT !.banned = {1, 7}],
      [Paragraph("md", 40, 40, 1) EXCEPT !.md_links = TRUE] }

\* no front matter; the front matter build_post_markdown writes; one whose
\* keyword holds a banned phrase
GateFrontMatters ==
    { [lines |-> 0,  banned |-> {},  disclosure |-> FALSE, md_links |-> FALSE],
      [lines |-> 12, banned |-> {},  disclosure |-> FALSE, md_links |-> FALSE],
      [lines |-> 12, banned |-> {2}, disclosure |-> FALSE, md_links |-> FALSE] }


InitGate ==
    /\ fn_args \in [text : [front_matter : GateFrontMatters,
                             body : SeqsUpTo(GateParagraphs, MaxGateParagraphs)],
                     min_chars : {1400}, max_duplicate_ratio : {35, 50}]
    /\ fn_op = "idle"
    /\ fn_result = None
    /\ TopicOff /\ ToolOff /\ BudgetOff /\ RunOff

RunQualityGateCall ==
    /\ fn_op = "idle"
    /\ fn_op' = "run_quality_gate"
    /\ fn_result' = run_quality_gate(fn_args.text, fn_args.min_chars,
                                     fn_args.max_duplicate_ratio)
    /\ UNCHANGED fn_args
    /\ UNCHANGED <<topicVars, toolVars, budgetVars, runVars>>

NextGate == RunQualityGateCall

SpecGate == InitGate /\ [][NextGate]_vars

\* ------------------------------------------------------------------------
\* Claims on run_quality_gate (checked under SpecGate)
\* ------------------------------------------------------------------------
HasIssue(tag) == \E i \in 1..Len(fn_result.issues) : fn_result.issues[i] = tag

HasDisclosure(text) ==
    \/ text.front_matter.disclosure
    \/ \E i \in 1..Len(text.body) : text.body[i].disclosure

HasMarkdownLink(text) ==
    \/ text.front_matter.md_links
    \/ \E i \in 1..Len(text.body) : text.body[i].md_links

\* the rel attribute holds the tokens sponsored and nofollow, in any order
\* and letter case
ValidRel(rel) ==
    rel \in {"sponsored nofollow", "nofollow sponsored", "Sponsored NoFollow"}

ValidAnchors(text) ==
    SelectSeq(find_external_anchors(text), LAMBDA a : ValidRel(a.rel))

DuplicateRatioTooHigh(text, max_duplicate_ratio) ==
    /\ duplicate_ratio(text)[2] > 0
    /\ 100 * duplicate_ratio(text)[1] > max_duplicate_ratio * duplicate_ratio(text)[2]

\* C17: on a text that does not contain the disclosure text the gate
\* returns passed = false with the issue of the missing disclosure, whatever
\* the rest of the text and whichever other checks fail.
C17_MissingDisclosureAlwaysReported ==
    (fn_op = "run_quality_gate" /\ ~HasDisclosure(fn_args.text)) =>
        /\ ~fn_result.passed
        /\ HasIssue("disclosure")

\* a text without the disclosure that fails four other checks as well
C17_Witness ==
    /\ fn_op = "run_quality_gate"
    /\ ~HasDisclosure(fn_args.text)
    /\ HasIssue("disclosure")
    /\ HasIssue("chars") /\ HasIssue("banned") /\ HasIssue("markdown_link")
    /\ HasIssue("no_cta")

\* C18 as stated: two valid sponsored/nofollow external anchors, at least
\* min_chars visible characters, no banned phrase and the disclosure present
\* are enough for passed = true.
C18_AsStated ==
    (/\ fn_op = "run_quality_gate"
     /\ Len(ValidAnchors(fn_args.text)) >= 2
     /\ char_count(fn_args.text) >= fn_args.min_chars
     /\ TextBanned(fn_args.text) = {}
     /\ HasDisclosure(fn_args.text))
    => fn_result.passed

\* C18: the gate returns passed = true on every text that has an external
\* anchor, whose external anchors all carry sponsored and nofollow, that has
\* at least min_chars visible characters, a duplicate ratio of at most
\* max_duplicate_ratio, no banned phrase, no Markdown external link, and
\* the disclosure text.
C18_PassesWhenAllChecksHold ==
    (/\ fn_op = "run_quality_gate"
     /\ find_external_anchors(fn_args.text) # <<>>
     /\ ValidAnchors(fn_args.text) = find_external_anchors(fn_args.text)
     /\ char_count(fn_args.text) >= fn_args.min_chars
     /\ ~DuplicateRatioTooHigh(fn_args.text, fn_args.max_duplicate_ratio)
     /\ TextBanned(fn_args.text) = {}
     /\ ~HasMarkdownLink(fn_args.text)
     /\ HasDisclosure(fn_args.text))
    => fn_result.passed

\* a rendered post with two valid anchors, one of them with the tokens in
\* the other order, passed
C18_Witness ==
    /\ fn_op = "run_quality_gate"
    /\ fn_result.passed
    /\ fn_args.text.front_matter.lines = 12
    /\ Len(ValidAnchors(fn_args.text)) = 2
    /\ \E i \in 1..Len(fn_args.text.body) :
          fn_args.text.body[i].name = "cta_swapped"

\* C19: every one of the seven checks is evaluated on every text: each
\* violated check has its issue in the result, whichever other checks fail,
\* and passed is true exactly when no check is violated.
C19_AllChecksAccumulate ==
    fn_op = "run_quality_gate" =>
        LET text == fn_args.text
            anchors == find_external_anchors(text)
        IN  /\ HasIssue("chars") <=> char_count(text) < fn_args.min_chars
            /\ HasIssue("duplicate") <=>
                  DuplicateRatioTooHigh(text, fn_args.max_duplicate_ratio)
            /\ HasIssue("banned") <=> TextBanned(text) # {}
            /\ HasIssue("disclosure") <=> ~HasDisclosure(text)
            /\ HasIssue("markdown_link") <=> HasMarkdownLink(text)
            /\ HasIssue("no_cta") <=> anchors = <<>>
            /\ HasIssue("rel") <=>
                  \E i \in 1..Len(anchors) : ~ValidRel(anchors[i].rel)
            /\ fn_result.passed <=>
                  /\ char_count(text) >= fn_args.min_chars
                  /\ ~DuplicateRatioTooHigh(text, fn_args.max_duplicate_ratio)
                  /\ TextBanned(text) = {}
                  /\ HasDisclosure(text)
                  /\ ~HasMarkdownLink(text)
                  /\ anchors # <<>>
                  /\ \A i \in 1..Len(anchors) : ValidRel(anchors[i].rel)

\* a text that fails the length, duplicate, banned-phrase, disclosure and
\* rel checks at once, all five reported
C19_Witness ==
    /\ fn_op = "run_quality_gate"
    /\ HasIssue("chars") /\ HasIssue("duplicate") /\ HasIssue("banned")
    /\ HasIssue("disclosure") /\ HasIssue("rel")
    /\ ~HasIssue("no_cta") /\ ~HasIssue("markdown_link")

\* ------------------------------------------------------------------------
\* Claims on the fallback draft as a post (checked under SpecDraft)
\* ------------------------------------------------------------------------
\* the anchors with rel="sponsored nofollow" of a body
SponsoredAnchors(body) ==
    SelectSeq(BodyAnchors(body), LAMBDA a : a.rel = "sponsored nofollow")

\* C16: for every min_chars the fallback draft (force_template set) has at
\* least 2 anchors with rel="sponsored nofollow" and at least min_chars
\* visible characters, and the post build_post_markdown renders from it
\* passes run_quality_gate with the same min_chars, the duplicate-ratio
\* check included.
C16_FallbackPassesGate ==
    (fn_op = "generate_article" /\ fn_args.force_template) =>
        /\ fn_result # NeverReturns
        /\ fn_result # NeverReturns =>
              /\ ~fn_result.used_model
              /\ Len(SponsoredAnchors(fn_result.body)) >= 2
              /\ visible_char_count(fn_result.body) >= fn_args.min_chars
              /\ run_quality_gate(
                    build_post_markdown(fn_args.keyword, fn_args.intent,
                        [tool_id |-> "tool-1", name |-> fn_args.tool_name],
                        fn_args.cta_url, fn_result.body),
                    fn_args.min_chars, 35).passed

\* ------------------------------------------------------------------------
\* Inputs of a run
\* ------------------------------------------------------------------------
RunTopicRows ==
    { [keyword |-> "ai",  intent |-> "compare", priority |-> "10",
       status |-> "new", last_used_at |-> ""],
      [keyword |-> "AI!", intent |-> "compare", priority |-> "abc",
       status |-> "new", last_used_at |-> ""],
      [keyword |-> "seo", intent |-> "compare", priority |-> "10",
       status |-> "Paused", last_used_at |-> ""] }

RunToolRows ==
    { [tool_id |-> "tool-1", name |-> "Canva", category |-> "x",
       official_url |-> "https://www.canva.com",
       affiliate_url |-> "https://a8.net/real", status |-> "approved",
       last_posted_at |-> "2026-02-10"],
      [tool_id |-> "tool-2", name |-> "Notion", category |-> "x",
       official_url |-> "https://www.notion.so",
       affiliate_url |-> "https://example.com/a8/x", status |-> "pending",
       last_posted_at |-> ""],
      [tool_id |-> "tool-3", name |-> "Canva", category |-> "x",
       official_url |-> "", affiliate_url |-> "", status |-> "pending",
       last_posted_at |-> "2026-02-10"] }

\* generated texts, as paragraphs: a plain article; one with a banned
\* phrase; one whose markup makes up a third of its length; a short one
ModelResponses ==
    { CallFailed,
      Generated(<<Paragraph("m1", 800, 800, 9), Paragraph("m2", 700, 700, 8)>>),
      Generated(<<Paragraph("m1", 800, 800, 9),
                  [Paragraph("m3", 700, 700, 8) EXCEPT !.banned = {7}]>>),
      Generated(<<Paragraph("m4", 500, 800, 9), Paragraph("m5", 400, 700, 8)>>),
      Generated(<<Paragraph("m6", 300, 300, 4)>>) }

\* today_jst() as the day and the minutes left until midnight, with the
\* cost store of that day: an even day over budget, and an odd day shortly
\* before midnight with and without costs
RunDays ==
    { [now |-> [day |-> 3, to_midnight |-> 100],
       costs |-> <<[month |-> "2026-02", total_usd |-> "6"]>>],
      [now |-> [day |-> 2, to_midnight |-> 1],
       costs |-> <<[month |-> "2026-02", total_usd |-> "6"]>>],
      [now |-> [day |-> 2, to_midnight |-> 1],
       costs |-> <<[month |-> "2026-03", total_usd |-> "6"]>>] }

DayOfMonth(d) ==
    CASE d = 1 -> 10 [] d = 2 -> 13 [] d = 3 -> 14 [] d = 4 -> 15

\* (now + timedelta(minutes=index)).date()
DateOfIteration(i) == IF i >= now.to_midnight THEN now.day + 1 ELSE now.day

\* ------------------------------------------------------------------------
\* Specification Spec: one run of publish.cli
\* ------------------------------------------------------------------------
Init ==
    /\ args \in [dry_run : BOOLEAN, mock : BOOLEAN]
    /\ hf_token = IF args.mock THEN "" ELSE "hf_token"
    /\ config \in [min_chars : {1400}, posts_per_run : 1..MaxPostsPerRun,
                    max_monthly_usd : {5}]
    /\ \E d \in RunDays : now = d.now /\ costs_csv = d.costs
    /\ keywords_csv \in SeqsUpTo(RunTopicRows, MaxRunTopics)
    /\ tools_csv \in SeqsUpTo(RunToolRows, MaxRunTools)
    /\ posts_dir \in {{}, {"2026-02-14-ai-canva"}}
    /\ at_start = [keywords |-> keywords_csv, tools |-> tools_csv, posts |-> posts_dir]
    /\ store_writes = [keywords |-> 0, tools |-> 0]
    /\ current_keywords = <<>>
    /\ current_tools = <<>>
    /\ generated = <<>>
    /\ index = 0
    /\ pc = "start"
    /\ outcome = ""
    /\ picks = <<>>
    /\ written = <<>>
    /\ TopicOff /\ ToolOff /\ BudgetOff /\ FnOff

OtherSpecsUnchanged == UNCHANGED <<topicVars, toolVars, budgetVars, fnVars>>

InputsUnchanged == UNCHANGED <<args, config, hf_token, now, costs_csv, at_start>>

\* cli up to the loop: the stores are read and the budget is checked
Start ==
    /\ pc = "start"
    /\ IF should_skip_for_budget(
              [year |-> 2026, month |-> 2, day |-> DayOfMonth(now.day)],
              costs_csv, config.max_monthly_usd)
       THEN /\ outcome' = "skipped:budget_limit_even_day_only"
            /\ pc' = "done"
            /\ UNCHANGED <<current_keywords, current_tools>>
       ELSE /\ current_keywords' = keywords_csv
            /\ current_tools' = tools_csv
            /\ pc' = "loop"
            /\ UNCHANGED outcome
    /\ UNCHANGED <<keywords_csv, tools_csv, posts_dir, store_writes, generated,
                   index, picks, written>>
    /\ InputsUnchanged /\ OtherSpecsUnchanged

posts_per_run == IF config.posts_per_run < 1 THEN 1 ELSE config.posts_per_run

\* an exception leaves cli: nothing else happens in this run
Abort(what) ==
    /\ pc' = "done"
    /\ outcome' = what
    /\ UNCHANGED <<keywords_csv, tools_csv, posts_dir, store_writes,
                   current_keywords, current_tools, generated, index, written>>

\* _generate_one_post writing the file before the quality gate is run
GenerateOnePost_writes_before_gate ==
    /\ pc = "loop"
    /\ \E response \in (IF args.mock \/ hf_token = "" THEN {CallFailed}
                         ELSE ModelResponses) :
       \E day \in {DateOfIteration(index)}, topic \in {select_topic(current_keywords)} :
        IF topic = None
        THEN /\ pc' = "report"
             /\ UNCHANGED <<keywords_csv, tools_csv, posts_dir, store_writes,
                            current_keywords, current_tools, generated, index,
                            outcome, picks, written>>
        ELSE
        \E tool \in {select_tool(current_tools)} :
        IF Raised(tool)
        THEN Abort("error:tools.csv has no rows") /\ UNCHANGED picks
        ELSE
        \E cta \in {resolve_cta_url(tool)},
           pick \in {[keyword |-> topic.keyword, tool_id |-> tool.tool_id]} :
        IF Raised(cta)
        THEN Abort("error:no usable URL") /\ picks' = Append(picks, pick)
        ELSE
        \E draft \in {generate_article(topic.keyword, topic.intent, tool.name,
                          cta.url, DisclosureText, config.min_chars, Provider,
                          args.mock, hf_token, response)} :
        IF draft = NeverReturns
        THEN /\ pc' = "hung"
             /\ picks' = Append(picks, pick)
             /\ UNCHANGED <<keywords_csv, tools_csv, posts_dir, store_writes,
                            current_keywords, current_tools, generated, index,
                            outcome, written>>
        ELSE
        \E slug \in {generate_unique_slug(slugify(topic.keyword \o "-" \o tool.name),
                                          posts_dir, IsoFormat(day))},
           markdown \in {build_post_markdown(topic.keyword, topic.intent, tool,
                                             cta.url, draft.body)} :
        \E gate \in {run_quality_gate(markdown, config.min_chars, 35)} :
        LET output_file == IsoFormat(day) \o "-" \o slug
            result      == [output |-> output_file, keyword |-> topic.keyword,
                            tool |-> tool.name, cta_url |-> cta.url,
                            used_model |-> draft.used_model]
        IN
        IF ~gate.passed
        THEN /\ pc' = "done"
             /\ outcome' = "error:Quality gate failed"
             /\ posts_dir' = IF ~args.dry_run THEN posts_dir \cup {output_file}
                             ELSE posts_dir
             /\ written' = IF ~args.dry_run
                           THEN Append(written,
                                [path |-> output_file,
                                 issues |-> GateIssues(markdown, config.min_chars, 35)])
                           ELSE written
             /\ picks' = Append(picks, pick)
             /\ UNCHANGED <<keywords_csv, tools_csv, store_writes, current_keywords,
                            current_tools, generated, index>>
        ELSE /\ posts_dir' = IF ~args.dry_run THEN posts_dir \cup {output_file}
                             ELSE posts_dir
             /\ written' = IF ~args.dry_run
                           THEN Append(written,
                                [path |-> output_file,
                                 issues |-> GateIssues(markdown, config.min_chars, 35)])
                           ELSE written
             /\ current_keywords' = mark_topic_used(current_keywords, topic.keyword, day)
             /\ current_tools' = update_tool_last_posted(current_tools, tool.tool_id, day)
             /\ generated' = Append(generated, result)
             /\ index' = index + 1
             /\ pc' = IF index + 1 < posts_per_run THEN "loop" ELSE "report"
             /\ picks' = Append(picks, pick)
             /\ UNCHANGED <<keywords_csv, tools_csv, store_writes, outcome>>
    /\ InputsUnchanged /\ OtherSpecsUnchanged

\* one pass of the loop of cli: _generate_one_post and what cli does with
\* its result.  (\E x \in {e} binds x to the value of e.)
GenerateOnePost ==
    /\ pc = "loop"
    /\ \E response \in (IF args.mock \/ hf_token = "" THEN {CallFailed}
                         ELSE ModelResponses) :
       \E day \in {DateOfIteration(index)}, topic \in {select_topic(current_keywords)} :
        IF topic = None
        THEN /\ pc' = "report"
             /\ UNCHANGED <<keywords_csv, tools_csv, posts_dir, store_writes,
                            current_keywords, current_tools, generated, index,
                            outcome, picks, written>>
        ELSE
        \E tool \in {select_tool(current_tools)} :
        IF Raised(tool)
        THEN Abort("error:tools.csv has no rows") /\ UNCHANGED picks
        ELSE
        \E cta \in {resolve_cta_url(tool)},
           pick \in {[keyword |-> topic.keyword, tool_id |-> tool.tool_id]} :
        IF Raised(cta)
        THEN Abort("error:no usable URL") /\ picks' = Append(picks, pick)
        ELSE
        \E draft \in {generate_article(topic.keyword, topic.intent, tool.name,
                          cta.url, DisclosureText, config.min_chars, Provider,
                          args.mock, hf_token, response)} :
        IF draft = NeverReturns
        THEN /\ pc' = "hung"
             /\ picks' = Append(picks, pick)
             /\ UNCHANGED <<keywords_csv, tools_csv, posts_dir, store_writes,
                            current_keywords, current_tools, generated, index,
                            outcome, written>>
        ELSE
        \E slug \in {generate_unique_slug(slugify(topic.keyword \o "-" \o tool.name),
                                          posts_dir, IsoFormat(day))},
           markdown \in {build_post_markdown(topic.keyword, topic.intent, tool,
                                             cta.url, draft.body)} :
        \E gate \in {run_quality_gate(markdown, config.min_chars, 35)} :
        LET output_file == IsoFormat(day) \o "-" \o slug
            result      == [output |-> output_file, keyword |-> topic.keyword,
                            tool |-> tool.name, cta_url |-> cta.url,
                            used_model |-> draft.used_model]
        IN
        IF ~gate.passed
        THEN Abort("error:Quality gate failed") /\ picks' = Append(picks, pick)
        ELSE /\ posts_dir' = IF ~args.dry_run THEN posts_dir \cup {output_file}
                             ELSE posts_dir
             /\ written' = IF ~args.dry_run
                           THEN Append(written,
                                [path |-> output_file,
                                 issues |-> GateIssues(markdown, config.min_chars, 35)])
                           ELSE written
             /\ current_keywords' = mark_topic_used(current_keywords, topic.keyword, day)
             /\ current_tools' = update_tool_last_posted(current_tools, tool.tool_id, day)
             /\ generated' = Append(generated, result)
             /\ index' = index + 1
             /\ pc' = IF index + 1 < posts_per_run THEN "loop" ELSE "report"
             /\ picks' = Append(picks, pick)
             /\ UNCHANGED <<keywords_csv, tools_csv, store_writes, outcome>>
    /\ InputsUnchanged /\ OtherSpecsUnchanged

\* cli after the loop, persisting without looking at --dry-run
Report_persists_in_dry_run ==
    /\ pc = "report"
    /\ IF generated = <<>>
       THEN pc' = "done" /\ outcome' = "skipped:no_topic_available"
       ELSE pc' = "write_keywords" /\ UNCHANGED outcome
    /\ UNCHANGED <<keywords_csv, tools_csv, posts_dir, store_writes,
                   current_keywords, current_tools, generated, index, picks, written>>
    /\ InputsUnchanged /\ OtherSpecsUnchanged

\* cli after the loop, raising when no post was generated
Report_no_posts_is_error ==
    /\ pc = "report"
    /\ IF generated = <<>>
       THEN pc' = "done" /\ outcome' = "error:no topic available"
       ELSE IF args.dry_run
       THEN pc' = "done" /\ outcome' = "published"
       ELSE pc' = "write_keywords" /\ UNCHANGED outcome
    /\ UNCHANGED <<keywords_csv, tools_csv, posts_dir, store_writes,
                   current_keywords, current_tools, generated, index, picks, written>>
    /\ InputsUnchanged /\ OtherSpecsUnchanged

\* cli after the loop, up to the first write_csv_rows
Report ==
    /\ pc = "report"
    /\ IF generated = <<>>
       THEN pc' = "done" /\ outcome' = "skipped:no_topic_available"
       ELSE IF args.dry_run
       THEN pc' = "done" /\ outcome' = "published"
       ELSE pc' = "write_keywords" /\ UNCHANGED outcome
    /\ UNCHANGED <<keywords_csv, tools_csv, posts_dir, store_writes,
                   current_keywords, current_tools, generated, index, picks, written>>
    /\ InputsUnchanged /\ OtherSpecsUnchanged

\* write_csv_rows(args.keywords, current_keywords, KEYWORD_COLUMNS)
WriteKeywords ==
    /\ pc = "write_keywords"
    /\ keywords_csv' = current_keywords
    /\ store_writes' = [store_writes EXCEPT !.keywords = @ + 1]
    /\ pc' = "write_tools"
    /\ UNCHANGED <<tools_csv, posts_dir, current_keywords, current_tools,
                   generated, index, outcome, picks, written>>
    /\ InputsUnchanged /\ OtherSpecsUnchanged

\* write_csv_rows(args.tools, current_tools, TOOLS_COLUMNS) and the summary
WriteTools ==
    /\ pc = "write_tools"
    /\ tools_csv' = current_tools
    /\ store_writes' = [store_writes EXCEPT !.tools = @ + 1]
    /\ pc' = "done"
    /\ outcome' = "published"
    /\ UNCHANGED <<keywords_csv, posts_dir, current_keywords, current_tools,
                   generated, index, picks, written>>
    /\ InputsUnchanged /\ OtherSpecsUnchanged

Next == Start \/ GenerateOnePost \/ Report \/ WriteKeywords \/ WriteTools

Spec == Init /\ [][Next]_vars

\* ------------------------------------------------------------------------
\* Claims on the run (checked under Spec)
\* ------------------------------------------------------------------------
DiskAsAtStart ==
    /\ posts_dir = at_start.posts
    /\ keywords_csv = at_start.keywords
    /\ tools_csv = at_start.tools
    /\ store_writes = [keywords |-> 0, tools |-> 0]

\* C1: a run that is not a dry run and aborts because the quality gate or
\* resolve_cta_url failed, in whichever iteration, leaves the disk as it was
\* at run start: no post file of this run, neither store rewritten.
C1_NoPartialPublish ==
    (/\ pc = "done"
     /\ ~args.dry_run
     /\ outcome \in {"error:Quality gate failed", "error:no usable URL"})
    => DiskAsAtStart

\* C2: the topic store and the tool store are each rewritten at most once,
\* only after the last iteration, only when a post was generated and the run
\* is not a dry run; a dry run writes no post file and rewrites no store.
C2_PersistencePolicy ==
    /\ store_writes.keywords <= 1
    /\ store_writes.tools <= 1
    /\ store_writes.tools <= store_writes.keywords
    /\ store_writes.keywords = 0 => keywords_csv = at_start.keywords
    /\ store_writes.tools = 0 => tools_csv = at_start.tools
    /\ store_writes.keywords > 0 =>
          /\ pc \in {"write_tools", "done"}
          /\ ~args.dry_run
          /\ Len(generated) >= 1
    /\ args.dry_run => DiskAsAtStart

\* a run of two iterations that wrote both stores once, after two posts
C2_Witness ==
    /\ pc = "done"
    /\ outcome = "published"
    /\ Len(generated) = 2
    /\ store_writes = [keywords |-> 1, tools |-> 1]
    /\ keywords_csv # at_start.keywords
    /\ Cardinality(posts_dir \ at_start.posts) = 2

\* C3: the identity keys {date_prefix}-{slug} of the posts of one run are
\* pairwise distinct, and none is the stem of a file that existed in the
\* output directory when the run began, written to disk or not.
C3_IdentityKeysDistinct ==
    /\ \A i, j \in 1..Len(generated) :
          i # j => generated[i].output # generated[j].output
    /\ \A i \in 1..Len(generated) : generated[i].output \notin at_start.posts

\* C10: a tool_id selected in an earlier iteration is not selected again in a
\* later iteration of the run while the tool store holds a tool that was not
\* yet selected in this run.
C10_NoToolRepeatedWithinRun ==
    \A i, j \in 1..Len(picks) :
        (i < j /\ picks[i].tool_id = picks[j].tool_id) =>
            \A t \in 1..Len(tools_csv) :
                \E k \in 1..(j - 1) : picks[k].tool_id = tools_csv[t].tool_id

\* outcomes of a run that returns 0 with a skip reason
SkipOutcomes ==
    {"skipped:no_topic_available", "skipped:budget_limit_even_day_only"}

EligibleTopicAtStart ==
    \E i \in 1..Len(at_start.keywords) : ~Ineligible(at_start.keywords[i])

\* C13: a run whose tool store has no rows, with an eligible topic in the
\* topic store, ends with a skip outcome (a reason code, status 0) and not
\* with an error, and writes nothing.
C13_EmptyToolStoreIsSkip ==
    (/\ pc = "done"
     /\ at_start.tools = <<>>
     /\ EligibleTopicAtStart)
    => /\ outcome \in SkipOutcomes
       /\ DiskAsAtStart

\* the budget gate ends the run before the first iteration
BudgetGateSkips ==
    should_skip_for_budget(
        [year |-> 2026, month |-> 2, day |-> DayOfMonth(now.day)],
        costs_csv, config.max_monthly_usd)

\* C14: a run that reaches its first iteration with no eligible topic
\* generates no post, ends with the skip no_topic_available, selects no
\* tool, writes no post file and rewrites neither store.
C14_NoTopicIsSkip ==
    (~EligibleTopicAtStart /\ pc # "start") =>
        /\ generated = <<>>
        /\ picks = <<>>
        /\ DiskAsAtStart
        /\ (pc = "done" /\ ~BudgetGateSkips) =>
              outcome = "skipped:no_topic_available"

\* a run over a topic store whose only row is paused, with a tool in the
\* tool store and not a dry run, ended with the skip no_topic_available
C14_Witness ==
    /\ pc = "done"
    /\ outcome = "skipped:no_topic_available"
    /\ Len(at_start.keywords) = 1
    /\ at_start.keywords[1].status = "Paused"
    /\ at_start.tools # <<>>
    /\ ~args.dry_run
    /\ ~BudgetGateSkips

\* ------------------------------------------------------------------------
\* scripts/generate_article.py: optimize_title_for_ctr
\* A text is the sequence of its characters; a character outside ASCII is
\* written by its reading ("hi", "kaku" for the two characters of the word
\* "comparison").
\* ------------------------------------------------------------------------
\* characters matched by \s and removed by str.strip()
Whitespace == {" ", "TAB", "NEWLINE", "IDEOSPACE"}
IsSpace(c) == c \in Whitespace

RECURSIVE CollapseSpaces(_)
CollapseSpaces(text) ==
    IF text = <<>> THEN <<>>
    ELSE IF IsSpace(Head(text))
         THEN IF Tail(text) # <<>> /\ IsSpace(Head(Tail(text)))
              THEN CollapseSpaces(Tail(text))
              ELSE <<" ">> \o CollapseSpaces(Tail(text))
         ELSE <<Head(text)>> \o CollapseSpaces(Tail(text))

\* _compact_spaces: re.sub(r"\s+", " ", text).strip()
compact_spaces(text) ==
    LET c == CollapseSpaces(text)
        l == IF c # <<>> /\ Head(c) = " " THEN Tail(c) ELSE c
    IN  IF l # <<>> /\ l[Len(l)] = " " THEN SubSeq(l, 1, Len(l) - 1) ELSE l

\* sub in text
Contains(sub, text) ==
    \E i \in 1..(Len(text) - Len(sub) + 1) :
        SubSeq(text, i, i + Len(sub) - 1) = sub

\* text[:n] for n >= 0
Prefix(text, n) == SubSeq(text, 1, IF n < Len(text) THEN n ELSE Len(text))

\* the words optimize_title_for_ctr looks for, by their reading
JaWords ==
    [hikaku |-> <<"hi", "kaku">>, ryokin |-> <<"ryo", "kin">>,
     hiyo |-> <<"hi2", "yo">>, sho |-> <<"sho">>,
     shoshinsha |-> <<"sho", "shin", "sha">>, katsuyo |-> <<"katsu", "yo2">>,
     jirei |-> <<"ji", "rei">>]
Ellipsis == <<"ELLIPSIS">>


title_hook(keyword_clean, intent_clean) ==
    IF Contains(JaWords.hikaku, keyword_clean) \/ Contains(JaWords.hikaku, intent_clean)
    THEN (JaWords.hikaku \o <<"po", "i", "n", "to", "5", "tsu">>)
    ELSE IF \/ Contains(JaWords.ryokin, keyword_clean) \/ Contains(JaWords.hiyo, keyword_clean)
            \/ Contains(JaWords.ryokin, intent_clean)
    THEN (JaWords.ryokin \o <<"to2", "shitsu", "pai", "shi", "na", "i2", "sen", "bi", "kata">>)
    ELSE IF Contains(JaWords.shoshinsha, keyword_clean) \/ Contains(JaWords.sho, intent_clean)
    THEN (JaWords.shoshinsha \o <<"mu", "ke", "dou", "nyuu", "te", "jun">>)
    ELSE IF Contains(JaWords.katsuyo, keyword_clean) \/ Contains(JaWords.jirei, keyword_clean)
    THEN (JaWords.katsuyo \o JaWords.jirei \o <<"3", "sen">>)
    ELSE <<"shitsu", "pai", "shi", "na", "i2", "dou", "nyuu", "chi", "e", "tsu2",
           "ku", "ri", "su", "to">>

\* f"[{year} edition]": bracket, the digits of the year, two characters, bracket
YearPrefix(year) == <<"[[">> \o year \o <<"nen", "ban", "]]">>

\* the last step without the cut of a long keyword
optimize_title_for_ctr_no_truncation(title, keyword, intent, tool_name, max_chars, year) ==
    LET keyword_clean == compact_spaces(keyword)
        hook == title_hook(keyword_clean, compact_spaces(intent))
        current == compact_spaces(title)
        first == YearPrefix(year) \o keyword_clean \o <<" ">> \o hook
                     \o <<"|">> \o tool_name
        second == YearPrefix(year) \o keyword_clean \o <<" ">> \o hook
    IN  IF Len(first) <= max_chars THEN first
        ELSE IF Len(second) <= max_chars THEN second
        ELSE IF /\ current # <<>> /\ Contains(keyword_clean, current)
                /\ Len(current) <= max_chars
        THEN current
        ELSE YearPrefix(year) \o keyword_clean

optimize_title_for_ctr(title, keyword, intent, tool_name, max_chars, year) ==
    LET keyword_clean == compact_spaces(keyword)
        hook == title_hook(keyword_clean, compact_spaces(intent))
        current == compact_spaces(title)
        first == YearPrefix(year) \o keyword_clean \o <<" ">> \o hook
                     \o <<"|">> \o tool_name
        second == YearPrefix(year) \o keyword_clean \o <<" ">> \o hook
    IN  IF Len(first) <= max_chars THEN first
        ELSE IF Len(second) <= max_chars THEN second
        ELSE IF /\ current # <<>> /\ Contains(keyword_clean, current)
                /\ Len(current) <= max_chars
        THEN current
        ELSE IF Len(keyword_clean) > max_chars - 9
        THEN YearPrefix(year) \o Prefix(keyword_clean, max_chars - 10) \o Ellipsis
        ELSE YearPrefix(year) \o keyword_clean

\* ------------------------------------------------------------------------
\* Specification SpecTitle: optimize_title_for_ctr applied to one set of
\* arguments
\* ------------------------------------------------------------------------
Word(n) ==
    [i \in 1..n |-> <<"a", "b", "c", "d", "e", "f", "g", "h", "i", "j">>[((i - 1) % 10) + 1]]

\* keywords around the lengths at which the shape of the title changes
\* (33/34: the hook no longer fits, 39/40: the keyword is cut), with runs
\* of whitespace, and with the words that choose the hook
TitleKeywords ==
    { <<>>, Word(5),
      <<" ", " ">> \o Word(3) \o <<" ", "TAB", " ">> \o Word(4) \o <<"NEWLINE">>,
      Word(4) \o JaWords.hikaku, JaWords.hiyo \o Word(3), JaWords.shoshinsha, Word(2) \o JaWords.jirei,
      Word(25), Word(33), Word(34), Word(38), Word(39), Word(40),
      JaWords.ryokin \o Word(40), Word(30) \o <<" ", " ">> \o Word(29) }
TitlesFor(keyword) ==
    { <<>>, <<"T", "i", "t", "l", "e">>,
      <<"T", " ", " ">> \o keyword \o <<"!">>,
      Word(12) \o keyword }


InitTitle ==
    /\ fn_args \in UNION {
          [title : TitlesFor(k), keyword : {k},
           intent : {Word(7), JaWords.hikaku \o Word(2), JaWords.sho \o Word(2), JaWords.ryokin},
           tool_name : {<<"C", "a", "n", "v", "a">>, Word(30)},
           max_chars : {48},
           year : {<<"2", "0", "2", "6">>, <<"2", "0", "2", "7">>}]
          : k \in TitleKeywords }
    /\ fn_op = "idle"
    /\ fn_result = None
    /\ TopicOff /\ ToolOff /\ BudgetOff /\ RunOff

OptimizeTitleCall ==
    /\ fn_op = "idle"
    /\ fn_op' = "optimize_title_for_ctr"
    /\ fn_result' = [title |-> optimize_title_for_ctr(
            fn_args.title, fn_args.keyword, fn_args.intent, fn_args.tool_name,
            fn_args.max_chars, fn_args.year)]
    /\ UNCHANGED fn_args
    /\ UNCHANGED <<topicVars, toolVars, budgetVars, runVars>>

NextTitle == OptimizeTitleCall

SpecTitle == InitTitle /\ [][NextTitle]_vars

\* the compacted keyword, or a proper non-empty leading part of it followed
\* by an ellipsis, occurs in the title
KeepsKeyword(title, keyword_clean) ==
    \/ Contains(keyword_clean, title)
    \/ \E n \in 1..(Len(keyword_clean) - 1) :
          Contains(Prefix(keyword_clean, n) \o Ellipsis, title)

\* C21: with max_chars = 48, optimize_title_for_ctr returns a title of at
\* most 48 characters that contains the whitespace-compacted keyword or,
\* when the keyword had to be cut, a leading part of it followed by an
\* ellipsis.
C21_TitleFitsAndKeepsKeyword ==
    (fn_op = "optimize_title_for_ctr" /\ fn_args.max_chars = 48) =>
        /\ Len(fn_result.title) <= 48
        /\ KeepsKeyword(fn_result.title, compact_spaces(fn_args.keyword))

\* a keyword longer than 39 characters came back cut, with the ellipsis
C21_Witness ==
    /\ fn_op = "optimize_title_for_ctr"
    /\ fn_args.max_chars = 48
    /\ Len(compact_spaces(fn_args.keyword)) > 39
    /\ ~Contains(compact_spaces(fn_args.keyword), fn_result.title)
    /\ Contains(Prefix(compact_spaces(fn_args.keyword), 38) \o Ellipsis,
                fn_result.title)
    /\ Len(fn_result.title) = 47

\* ------------------------------------------------------------------------
\* scripts/common.py: slugify, character by character
\* ------------------------------------------------------------------------
MaxSlugTextLen == 3

\* characters outside ASCII of the model: two kanji and one katakana
NonAscii == {"nichi", "hon", "ki"}

\* str.lower() on the characters of the model
LowerChar(c) == CASE c = "A" -> "a" [] c = "I" -> "i" [] OTHER -> c

RECURSIVE LStripChars(_, _)
LStripChars(text, chars) ==
    IF text # <<>> /\ Head(text) \in chars
    THEN LStripChars(Tail(text), chars) ELSE text

Reverse(text) == [i \in 1..Len(text) |-> text[Len(text) + 1 - i]]

\* text.strip(chars)
StripChars(text, chars) ==
    Reverse(LStripChars(Reverse(LStripChars(text, chars)), chars))

\* re.sub(r"[chars]+", "-", text)
RECURSIVE SquashRuns(_, _)
SquashRuns(text, chars) ==
    IF text = <<>> THEN <<>>
    ELSE IF Head(text) \in chars
         THEN <<"-">> \o SquashRuns(LStripChars(Tail(text), chars), chars)
         ELSE <<Head(text)>> \o SquashRuns(Tail(text), chars)

slugify_chars(text) ==
    LET stripped == StripChars(text, Whitespace)
        lowered == [i \in 1..Len(stripped) |-> LowerChar(stripped[i])]
        dashed == SquashRuns(lowered, Whitespace)
        ascii == [i \in 1..Len(dashed) |->
                     IF dashed[i] \in
                            {"a", "b", "c", "d", "e", "f", "g", "h", "i", "j", "k", "l",
                             "m", "n", "o", "p", "q", "r", "s", "t", "u", "v", "w", "x",
                             "y", "z", "0", "1", "2", "3", "4", "5", "6", "7", "8", "9",
                             "-"}
                     THEN dashed[i] ELSE "-"]
        value == StripChars(SquashRuns(ascii, {"-"}), {"-"})
    IN  IF value = <<>> THEN <<"p", "o", "s", "t">> ELSE value

\* ------------------------------------------------------------------------
\* Specification SpecSlugify: slugify applied to one text
\* ------------------------------------------------------------------------

InitSlugify ==
    /\ fn_args \in
          [text : UNION { [1..n -> {"a", "I", "7", "-", "!", " ", "IDEOSPACE"} \cup NonAscii]
                          : n \in 0..MaxSlugTextLen }]
    /\ fn_op = "idle"
    /\ fn_result = None
    /\ TopicOff /\ ToolOff /\ BudgetOff /\ RunOff

SlugifyCall ==
    /\ fn_op = "idle"
    /\ fn_op' = "slugify"
    /\ fn_result' = [slug |-> slugify_chars(fn_args.text)]
    /\ UNCHANGED fn_args
    /\ UNCHANGED <<topicVars, toolVars, budgetVars, runVars>>

NextSlugify == SlugifyCall

SpecSlugify == InitSlugify /\ [][NextSlugify]_vars

\* the text has a character outside ASCII and nothing but such characters
\* and whitespace
OnlyNonAsciiAndSpace(text) ==
    /\ \A i \in 1..Len(text) : text[i] \in NonAscii \cup Whitespace
    /\ \E i \in 1..Len(text) : text[i] \in NonAscii

\* C22: slugify of a text made only of non-ASCII characters and whitespace
\* returns a slug that starts with "kw-".
C22_NonAsciiSlugHasKwPrefix ==
    (fn_op = "slugify" /\ OnlyNonAsciiAndSpace(fn_args.text)) =>
        Prefix(fn_result.slug, 3) = <<"k", "w", "-">>

\* ------------------------------------------------------------------------
\* Further claims on the topic selector (checked under SpecTopic)
\* ------------------------------------------------------------------------
\* positions of the rows select_topic chooses from: the eligible rows never
\* used if there is one, else the eligible rows
Candidates(rows) ==
    LET eligible == {i \in 1..Len(rows) : ~Ineligible(rows[i])}
        unused   == {i \in eligible : rows[i].last_used_at = ""}
    IN  IF unused # {} THEN unused ELSE eligible

LastUsedOrZero(row) ==
    IF row.last_used_at = "" THEN "0000-00-00" ELSE row.last_used_at

\* row a is strictly preferred to row b on the three keys
Preferred(a, b) ==
    \/ parse_priority(a.priority) > parse_priority(b.priority)
    \/ /\ parse_priority(a.priority) = parse_priority(b.priority)
       /\ StrRank(LastUsedOrZero(a)) < StrRank(LastUsedOrZero(b))
    \/ /\ parse_priority(a.priority) = parse_priority(b.priority)
       /\ LastUsedOrZero(a) = LastUsedOrZero(b)
       /\ StrRank(a.status) < StrRank(b.status)

\* C23: within its candidate set select_topic returns a row of maximal
\* integer priority (unparsable counts as 0), among those one with the
\* smallest last_used_at (empty counts as "0000-00-00"), among those one
\* with the smallest status string, and among rows tied on all three keys
\* the one that comes first in the input list.
C23_SelectionOrder ==
    (tp_op = "selected" /\ tp_target # None) =>
        \E i \in Candidates(tp_rows) :
            /\ tp_target = tp_rows[i]
            /\ \A j \in Candidates(tp_rows) :
                  /\ ~Preferred(tp_rows[j], tp_rows[i])
                  /\ j < i => Preferred(tp_rows[i], tp_rows[j])

\* two used candidates of equal priority: the one used earlier was returned
\* although it comes later in the list and has the greater status string
C23_Witness ==
    /\ tp_op = "selected"
    /\ tp_target # None
    /\ Len(tp_rows) = 2
    /\ Candidates(tp_rows) = {1, 2}
    /\ tp_target = tp_rows[2]
    /\ parse_priority(tp_rows[1].priority) = parse_priority(tp_rows[2].priority)
    /\ StrRank(tp_rows[2].last_used_at) < StrRank(tp_rows[1].last_used_at)
    /\ StrRank(tp_rows[1].status) < StrRank(tp_rows[2].status)

\* C24 (as stated): in the output of mark_topic_used each row whose keyword
\* equals the given keyword has last_used_at set to the ISO date of used_at;
\* its status is used if the old status was new, ready or empty and is the
\* old status otherwise.
C24_AsStated ==
    tp_op = "marked" =>
        \A i \in 1..Len(tp_before) :
            tp_before[i].keyword = tp_keyword =>
                /\ tp_updated[i].last_used_at = IsoFormat(tp_used_at)
                /\ tp_updated[i].status =
                      IF tp_before[i].status \in {"new", "ready", ""}
                      THEN "used" ELSE tp_before[i].status

\* C24 (amended): in the output of mark_topic_used each row whose keyword
\* equals the given keyword has last_used_at set to the ISO date of used_at;
\* its status is used if the old status, compared case-insensitively, was
\* new, ready or empty, and is the old status otherwise; so a row with
\* status used, paused or archived keeps its status and no row moves from
\* used to new or ready.
C24_StatusAdvance ==
    tp_op = "marked" =>
        /\ \A i \in 1..Len(tp_before) :
              tp_before[i].keyword = tp_keyword =>
                  /\ tp_updated[i].last_used_at = IsoFormat(tp_used_at)
                  /\ tp_updated[i].status =
                        IF Lower(tp_before[i].status) \in {"new", "ready", ""}
                        THEN "used" ELSE tp_before[i].status
        /\ \A i \in 1..Len(tp_before) :
              /\ Lower(Strip(tp_before[i].status)) \in {"used", "paused", "archived"}
                    => tp_updated[i].status = tp_before[i].status
              /\ ~(/\ tp_before[i].status = "used"
                   /\ tp_updated[i].status \in {"new", "ready"})

\* one call stamped a row with status New, which became used, and a paused
\* row, which stayed paused
C24_Witness ==
    /\ tp_op = "marked"
    /\ \E i, j \in 1..Len(tp_before) :
          /\ tp_before[i].keyword = tp_keyword
          /\ tp_before[i].status = "New"
          /\ tp_updated[i].status = "used"
          /\ tp_updated[i].last_used_at = IsoFormat(tp_used_at)
          /\ tp_before[j].keyword = tp_keyword
          /\ tp_before[j].status = "paused"
          /\ tp_before[j].last_used_at # IsoFormat(tp_used_at)
          /\ tp_updated[j].status = "paused"
          /\ tp_updated[j].last_used_at = IsoFormat(tp_used_at)

\* ------------------------------------------------------------------------
\* Further claims on run_quality_gate (checked under SpecGate)
\* ------------------------------------------------------------------------
IssueCount(tag) ==
    Len(SelectSeq(fn_result.issues, LAMBDA t : t = tag))

InvalidAnchors(text) ==
    SelectSeq(find_external_anchors(text), LAMBDA a : ~ValidRel(a.rel))

One(b) == IF b THEN 1 ELSE 0

\* the number of violated checks among the five that concern the text as a
\* whole: length, duplicate ratio, disclosure, Markdown link, no anchor
WholeTextViolations(text, min_chars, max_duplicate_ratio) ==
    One(char_count(text) < min_chars)
    + One(DuplicateRatioTooHigh(text, max_duplicate_ratio))
    + One(~HasDisclosure(text))
    + One(HasMarkdownLink(text))
    + One(find_external_anchors(text) = <<>>)

\* C25 (as stated): each failed check appends exactly one issue, so the
\* number of issues equals the number of violated checks among the seven.
C25_AsStated ==
    fn_op = "run_quality_gate" =>
        Len(fn_result.issues) =
            WholeTextViolations(fn_args.text, fn_args.min_chars,
                                fn_args.max_duplicate_ratio)
            + One(TextBanned(fn_args.text) # {})
            + One(InvalidAnchors(fn_args.text) # <<>>)

\* C25 (amended): the length, duplicate-ratio, disclosure, Markdown-link
\* and missing-anchor checks append exactly one issue each when violated;
\* the banned-phrase check appends one issue for every banned phrase the
\* text contains and the rel check one issue for every external anchor
\* without both tokens; the number of issues is the sum.
C25_IssueCount ==
    fn_op = "run_quality_gate" =>
        /\ IssueCount("banned") = Cardinality(TextBanned(fn_args.text))
        /\ IssueCount("rel") = Len(InvalidAnchors(fn_args.text))
        /\ \A tag \in {"chars", "duplicate", "disclosure", "markdown_link", "no_cta"} :
              IssueCount(tag) <= 1
        /\ Len(fn_result.issues) =
              WholeTextViolations(fn_args.text, fn_args.min_chars,
                                  fn_args.max_duplicate_ratio)
              + Cardinality(TextBanned(fn_args.text))
              + Len(InvalidAnchors(fn_args.text))

\* a text with two banned phrases and two external anchors without the
\* tokens: two issues of each kind
C25_Witness ==
    /\ fn_op = "run_quality_gate"
    /\ Cardinality(TextBanned(fn_args.text)) = 2
    /\ Len(InvalidAnchors(fn_args.text)) = 2
    /\ IssueCount("banned") = 2
    /\ IssueCount("rel") = 2

\* ------------------------------------------------------------------------
\* Specification SpecCtaBlocks: _ensure_min_cta_blocks applied to one body
\* ------------------------------------------------------------------------
MaxCtaParagraphs == 3

CtaParagraphs ==
    { Paragraph("text", 200, 200, 3),
      [Paragraph("cta", 14, 86, 1) EXCEPT
          !.anchors = <<Anchor("https://www.canva.com", "sponsored nofollow")>>],
      [Paragraph("cta_swapped", 14, 86, 1) EXCEPT
          !.anchors = <<Anchor("https://www.notion.so", "nofollow sponsored")>>],
      [Paragraph("cta_nofollow", 14, 76, 1) EXCEPT
          !.anchors = <<Anchor("https://www.canva.com", "nofollow")>>],
      [Paragraph("link", 14, 60, 1) EXCEPT
          !.anchors = <<Anchor("https://www.canva.com", NoRel)>>] }


InitCtaBlocks ==
    /\ fn_args \in [body : SeqsUpTo(CtaParagraphs, MaxCtaParagraphs), tool_name : {"Canva"},
            cta_url : DraftCtaUrls, min_count : {1, 2, 3}]
    /\ fn_op = "idle"
    /\ fn_result = None
    /\ TopicOff /\ ToolOff /\ BudgetOff /\ RunOff

EnsureMinCtaBlocksCall ==
    /\ fn_op = "idle"
    /\ fn_op' = "ensure_min_cta_blocks"
    /\ fn_result' =
          IF ensure_min_cta_blocks_loops(fn_args.body, fn_args.tool_name,
                                         fn_args.cta_url, fn_args.min_count)
          THEN NeverReturns
          ELSE [body |-> ensure_min_cta_blocks(fn_args.body, fn_args.tool_name,
                                               fn_args.cta_url, fn_args.min_count)]
    /\ UNCHANGED fn_args
    /\ UNCHANGED <<topicVars, toolVars, budgetVars, runVars>>

NextCtaBlocks == EnsureMinCtaBlocksCall

SpecCtaBlocks == InitCtaBlocks /\ [][NextCtaBlocks]_vars

\* ------------------------------------------------------------------------
\* Claims on _ensure_min_cta_blocks (checked under SpecCtaBlocks)
\* ------------------------------------------------------------------------
\* the rel attribute contains sponsored and nofollow, in either order
RelHasBothTokens(rel) == rel \in {"sponsored nofollow", "nofollow sponsored"}

CompliantAnchors(body) ==
    SelectSeq(BodyAnchors(body), LAMBDA a : RelHasBothTokens(a.rel))

\* the paragraphs of the call: a body without paragraphs is one empty one
ParagraphsOf(body) ==
    IF body = <<>> THEN <<Paragraph("empty", 0, 0, 0)>> ELSE body

\* n CTA blocks inserted one after the other at index min(2, len(paragraphs))
RECURSIVE WithCtaBlocks(_, _, _)
WithCtaBlocks(paragraphs, cta, n) ==
    IF n = 0 THEN paragraphs
    ELSE WithCtaBlocks(
            InsertAt(paragraphs, IF Len(paragraphs) < 2 THEN Len(paragraphs) ELSE 2, cta),
            cta, n - 1)

\* C26: _ensure_min_cta_blocks counts the anchors whose rel contains both
\* sponsored and nofollow, in either order; a body with min_count such
\* anchors comes back without an additional block, a body with fewer gets
\* exactly (min_count - existing) fixed blocks, each inserted at paragraph
\* index min(2, number of paragraphs), the original paragraphs keep their
\* order, and the result has at least min_count such anchors.
C26_InsertsMissingCtaBlocks ==
    fn_op = "ensure_min_cta_blocks" =>
        LET existing == Len(CompliantAnchors(fn_args.body))
            missing  == IF existing < fn_args.min_count
                        THEN fn_args.min_count - existing ELSE 0
        IN  /\ fn_result # NeverReturns
            /\ fn_result # NeverReturns =>
                  /\ fn_result.body =
                        WithCtaBlocks(ParagraphsOf(fn_args.body),
                            ensure_cta_block(fn_args.tool_name, fn_args.cta_url),
                            missing)
                  /\ Len(CompliantAnchors(fn_result.body)) >= fn_args.min_count

\* ------------------------------------------------------------------------
\* Further claims on the run (checked under Spec)
\* ------------------------------------------------------------------------
\* C27: a post file is written only after run_quality_gate has passed on
\* exactly the text that is written: every file the run created was
\* written by the orchestrator with a text in which the checks of the
\* gate, applied with the configured min_chars and duplicate ratio, find
\* nothing; a dry run writes nothing.
C27_OnlyGatedTextIsWritten ==
    pc # "off" =>
        /\ \A f \in posts_dir \ at_start.posts :
              \E i \in 1..Len(written) : written[i].path = f
        /\ \A i \in 1..Len(written) :
              /\ written[i].path \in posts_dir
              /\ written[i].issues = <<>>
        /\ args.dry_run => written = <<>>

\* a run wrote a post in its first iteration and was then stopped by the
\* gate in its second
C27_Witness ==
    /\ pc = "done"
    /\ outcome = "error:Quality gate failed"
    /\ Len(written) = 1
    /\ posts_dir # at_start.posts

\* ------------------------------------------------------------------------
\* Specification SpecSeries: successive runs of publish.cli on one topic
\* store, as far as the topics are concerned.  Run number k happens on day
\* k; an iteration selects a topic and either raises (tool, URL or gate: the
\* run ends there and writes nothing) or marks the topic in memory; a run
\* that generated a post and is not a dry run writes the store.
\*   picks     selections of the runs that were persisted
\*   generated selections of the run in progress
\* each with the pool the selection was made from.
\* ------------------------------------------------------------------------
MaxSeriesTopics == 2
MaxSeriesRuns   == 2


InitSeries ==
    /\ keywords_csv \in
          SeqsUpTo([keyword : Keywords, intent : Intents, priority : Priorities,
                    status : {"new", "paused"}, last_used_at : {"", "2026-02-10"}],
                   MaxSeriesTopics)
    /\ now = [day |-> 1]
    /\ args = None
    /\ config = None
    /\ current_keywords = <<>>
    /\ generated = <<>>
    /\ picks = <<>>
    /\ index = 0
    /\ pc = "start"
    /\ hf_token = "" /\ costs_csv = <<>> /\ tools_csv = <<>> /\ posts_dir = {}
    /\ at_start = None /\ store_writes = None /\ current_tools = <<>>
    /\ outcome = "" /\ written = <<>>
    /\ TopicOff /\ ToolOff /\ BudgetOff /\ FnOff

SeriesFrame ==
    /\ UNCHANGED <<hf_token, costs_csv, tools_csv, posts_dir, at_start,
                   store_writes, current_tools, outcome, written>>
    /\ OtherSpecsUnchanged

\* cli up to the loop: arguments, configuration, the store is read
SeriesStartRun ==
    /\ pc = "start"
    /\ now.day <= MaxSeriesRuns
    /\ args' \in [dry_run : BOOLEAN]
    /\ config' \in [posts_per_run : {1, 2}]
    /\ current_keywords' = keywords_csv
    /\ generated' = <<>>
    /\ index' = 0
    /\ pc' = "loop"
    /\ UNCHANGED <<keywords_csv, now, picks>>
    /\ SeriesFrame

\* one pass of the loop: select_topic, then an exception or mark_topic_used
SeriesIteration ==
    /\ pc = "loop"
    /\ \E topic \in {select_topic(current_keywords)}, raises \in BOOLEAN :
        IF topic = None
        THEN /\ pc' = "report"
             /\ UNCHANGED <<current_keywords, generated, index, now>>
        ELSE IF raises
        THEN /\ pc' = "start"
             /\ now' = [day |-> now.day + 1]
             /\ generated' = <<>>
             /\ UNCHANGED <<current_keywords, index>>
        ELSE /\ current_keywords' =
                    mark_topic_used(current_keywords, topic.keyword, now.day)
             /\ generated' = Append(generated,
                    [keyword |-> topic.keyword, pool |-> current_keywords])
             /\ index' = index + 1
             /\ pc' = IF index + 1 < config.posts_per_run THEN "loop" ELSE "report"
             /\ UNCHANGED now
    /\ UNCHANGED <<keywords_csv, args, config, picks>>
    /\ SeriesFrame

\* cli after the loop: write_csv_rows unless nothing was generated or the
\* run is a dry run
SeriesEndRun ==
    /\ pc = "report"
    /\ IF generated # <<>> /\ ~args.dry_run
       THEN /\ keywords_csv' = current_keywords
            /\ picks' = picks \o generated
       ELSE UNCHANGED <<keywords_csv, picks>>
    /\ generated' = <<>>
    /\ now' = [day |-> now.day + 1]
    /\ pc' = "start"
    /\ UNCHANGED <<args, config, current_keywords, index>>
    /\ SeriesFrame

NextSeries == SeriesStartRun \/ SeriesIteration \/ SeriesEndRun

SpecSeries == InitSeries /\ [][NextSeries]_vars

\* ------------------------------------------------------------------------
\* Claims on successive runs (checked under SpecSeries)
\* ------------------------------------------------------------------------
\* the selections of the persisted runs followed by those of the run in
\* progress
Selections == picks \o generated

HasEligibleUnused(pool) ==
    \E i \in 1..Len(pool) : ~Ineligible(pool[i]) /\ pool[i].last_used_at = ""

EligibleUnusedKeywords(pool) ==
    {pool[i].keyword : i \in {k \in 1..Len(pool) :
                                  ~Ineligible(pool[k]) /\ pool[k].last_used_at = ""}}

\* C28: across the iterations of one run and of successive persisted runs,
\* a topic is selected again only when the pool holds no eligible topic
\* with empty last_used_at: after each selection every row of the selected
\* keyword has a non-empty last_used_at, and before a topic is repeated
\* every topic that was eligible and never used has been selected.
C28_UnusedBeforeRepeat ==
    pc \notin {"off"} =>
        /\ \A i, j \in 1..Len(Selections) :
              (i < j /\ Selections[i].keyword = Selections[j].keyword) =>
                  /\ ~HasEligibleUnused(Selections[j].pool)
                  /\ \A kw \in EligibleUnusedKeywords(Selections[1].pool) :
                        \E k \in 1..(j - 1) : Selections[k].keyword = kw
        /\ \A j \in 1..Len(Selections) :
              LET after == IF j < Len(Selections) THEN Selections[j + 1].pool
                           ELSE IF generated # <<>> THEN current_keywords
                           ELSE keywords_csv
              IN  \A r \in 1..Len(after) :
                     after[r].keyword = Selections[j].keyword
                        => after[r].last_used_at # ""

\* two never-used topics were selected one after the other, in different
\* persisted runs, and then the first one was selected again
C28_Witness ==
    /\ Len(picks) >= 3
    /\ picks[1].keyword # picks[2].keyword
    /\ picks[3].keyword = picks[1].keyword
    /\ EligibleUnusedKeywords(picks[1].pool) = {picks[1].keyword, picks[2].keyword}

\* ------------------------------------------------------------------------
\* Further claims on generate_article (checked under SpecDraft)
\* ------------------------------------------------------------------------
\* C29: a draft returned with used_model = true has a body whose visible
\* character count, measured as the quality gate measures it (tags and
\* whitespace removed), is at least min_chars.
C29_ModelDraftMeetsGateLength ==
    (/\ fn_op = "generate_article"
     /\ fn_result # NeverReturns
     /\ fn_result.used_model)
    => visible_char_count(fn_result.body) >= fn_args.min_chars

\* ------------------------------------------------------------------------
\* Termination of _ensure_min_cta_blocks (checked under SpecCtaBlocks)
\* ------------------------------------------------------------------------
\* a tool record whose only URL is the official one
ToolWithOfficialUrl(url) ==
    [tool_id |-> "tool-1", name |-> "Canva", category |-> "x",
     official_url |-> url, affiliate_url |-> "", status |-> "pending",
     last_posted_at |-> ""]

\* C30: for every body, tool name and CTA URL that resolve_cta_url can
\* return, _ensure_min_cta_blocks returns: the inserted block counts as one
\* compliant anchor, so the loop ends after at most min_count insertions.
C30_CtaInsertionTerminates ==
    (/\ fn_op = "ensure_min_cta_blocks"
     /\ resolve_cta_url(ToolWithOfficialUrl(fn_args.cta_url)) = [url |-> fn_args.cta_url])
    => /\ fn_result # NeverReturns
       /\ cta_count(<<ensure_cta_block(fn_args.tool_name, fn_args.cta_url)>>) = 1
       /\ fn_result # NeverReturns =>
             Len(fn_result.body) <= Len(ParagraphsOf(fn_args.body)) + fn_args.min_count

====
